---- MODULE Spec2Model ----
(***************************************************************************)
(* Coffee Factory Management System (Django + DRF).                        *)
(*                                                                         *)
(* The database is the only shared state.  Each table the properties talk  *)
(* about is a variable; each view, viewset action, admin action and model  *)
(* method that writes is an action.  Several specifications share the      *)
(* variables, one per subsystem, so that each stays small:                 *)
(*   SpecStock   inventory + production, one request at a time             *)
(*   SpecConc    two admin requests reserving materials concurrently       *)
(*   SpecApi     the JSON API (permission check, handlers, error bodies)   *)
(*               and the status updates of production and sales orders     *)
(*   SpecDelete  delete views and API DELETE                               *)
(*   SpecDates   date ordering on forms and serializers                    *)
(*   SpecAmounts amount fields on forms, serializers and admin forms       *)
(*   SpecSales   sales order items and order totals                        *)
(* Decimal quantities are integers (whole units); money is in cents.       *)
(***************************************************************************)
EXTENDS Integers, Sequences, FiniteSets, Bags, TLC

\* ------------------------------------------------------------------ bounds
MaxMovements == 6
MaxManual == 3
MaxDate == 3
MaxAmount == 1
MaxItemQty == 2
MaxSalary == 1
MaxPaid == 2

\* --------------------------------------------------------- fixed test data
None == "None"
\* NULL in a nullable number or date column is << >>, a value v is <<v>>
Null == << >>
Some(v) == <<v>>
Materials == {"m1", "m2"}
Products == {"p1"}
ProductionOrderIds == {"o1", "o2"}
Requests == {"r1", "r2"}
SalesOrderIds == {"s1", "s2"}
OrderItemIds == {"i1", "i2"}
CategoryIds == {"c1", "c2"}
SupplierIds == {"u1", "u2"}
EmployeeIds == {"e1", "e2"}
CustomerIds == {"k1"}
PayableIds == {"a1"}
PayrollIds == {"y1", "y2"}
ReceivableIds == {"b1"}

\* The one recipe every production order of the model uses: product p1,
\* yield_quantity 1, one recipe item per material (unique_together
\* recipe/material), ordered by Meta.ordering.
recipe_items == << [material |-> "m1", quantity |-> 1],
                   [material |-> "m2", quantity |-> 1] >>
recipe_product == "p1"
yield_quantity == 1

VARIABLES
    movements,          \* StockMovement rows (a bag: rows differ only by id)
    ledger,             \* history: running sum of stored quantities per item
    productionOrders,   \* ProductionOrder rows
    reqPc, reqOrder, reqIdx,   \* admin requests running reserve_materials
    reqError,           \* the exception a request ended with
    salesOrders,        \* SalesOrder rows
    orderItems,         \* SalesOrderItem rows
    response,           \* the HTTP response of the last request
    categories,         \* Category rows
    suppliers,          \* Supplier rows
    employees,          \* Employee rows (with the user's is_active)
    materialRows,       \* Material rows
    productRows,        \* Product rows
    customers,          \* Customer rows
    payables,           \* AccountsPayable rows
    receivables,        \* AccountsReceivable rows
    payments,           \* AccountsPayablePayment / AccountsReceivablePayment rows
    payReq,             \* each request's position inside make_payment
    payrolls,           \* Payroll rows
    now,                \* timezone.now(), as a day number
    lastOp              \* history: the last operation recorded and its target

stockVars == <<movements, ledger>>
poVars == <<productionOrders>>
reqVars == <<reqPc, reqOrder, reqIdx, reqError>>
salesVars == <<salesOrders, orderItems>>
httpVars == <<response>>
refVars == <<categories, suppliers, employees, materialRows, productRows,
             customers>>
payVars == <<payments, payReq, payrolls>>
finVars == <<payables, receivables, payments, payReq, payrolls>>
miscVars == <<now, lastOp>>
\* everything outside inventory, production orders and the admin requests
restVars == <<salesVars, httpVars, refVars, finVars, miscVars>>

\* ------------------------------------------------------------- settings
\* DATABASES['default'] of dev.py and prod.py carries no ATOMIC_REQUESTS key,
\* so requests run in autocommit mode: every ORM write commits on its own.
ATOMIC_REQUESTS == FALSE

\* ------------------------------------------------------------ inventory
MOVEMENT_TYPE_CHOICES == {"in", "out", "adjustment", "transfer"}

\* Sum('quantity') over a queryset: NULL (here << >>) for no rows.
RECURSIVE SumQuantity(_)
SumQuantity(rows) ==
    IF DOMAIN rows = {} THEN 0
    ELSE LET row == CHOOSE x \in DOMAIN rows : TRUE
         IN  row.quantity * rows[row]
             + SumQuantity([x \in DOMAIN rows \ {row} |-> rows[x]])

aggregate_Sum(rows) ==
    IF DOMAIN rows = {} THEN << >> ELSE << SumQuantity(rows) >>

\* queryset.filter(...)
filter(rows, P(_)) == [x \in {y \in DOMAIN rows : P(y)} |-> rows[x]]

\* mutant: the aggregate runs over every movement, not the material's own
stock_movements_unfiltered(m) == movements

stock_movements_of_material(m) ==
    filter(movements, LAMBDA mv : mv.material = m)

stock_movements_of_product(p) ==
    filter(movements, LAMBDA mv : mv.product = p)

\* Material.current_stock: aggregate(total=Sum('quantity'))['total'] or 0
Material_current_stock(m) ==
    LET total == aggregate_Sum(stock_movements_of_material(m))
    IN  IF total = << >> \/ total[1] = 0 THEN 0 ELSE total[1]

\* Product.current_stock
Product_current_stock(p) ==
    LET total == aggregate_Sum(stock_movements_of_product(p))
    IN  IF total = << >> \/ total[1] = 0 THEN 0 ELSE total[1]

\* mutant: clean without its two material/product tests
StockMovement_clean_unchecked(mv) == TRUE

\* StockMovement.clean: exactly one of material/product, then the sign rule.
StockMovement_clean_valid(mv) ==
    /\ ~(mv.material = None /\ mv.product = None)
    /\ ~(mv.material # None /\ mv.product # None)

StockMovement_clean_quantity(mv) ==
    IF mv.movement_type = "out" /\ mv.quantity > 0 THEN -mv.quantity
    ELSE IF mv.movement_type = "in" /\ mv.quantity < 0 THEN -mv.quantity
    ELSE mv.quantity

ItemOf(mv) == IF mv.material # None THEN mv.material ELSE mv.product

\* StockMovement.save: clean(), then INSERT.  Enabled only for a valid row;
\* an invalid one raises ValidationError and stores nothing.
StockMovement_save(mv) ==
    /\ StockMovement_clean_valid(mv)
    /\ BagCardinality(movements) < MaxMovements
    /\ LET stored == [mv EXCEPT !.quantity = StockMovement_clean_quantity(mv)]
       IN  /\ movements' = movements (+) SetToBag({stored})
           /\ ledger' = [ledger EXCEPT ![ItemOf(mv)] = @ + stored.quantity]

\* StockMovementCreateView: a ModelForm over material, product,
\* movement_type, quantity, reason, notes; form.save() calls the model save.
\* quantities typed into the form: one unit, with either sign
ManualQuantities == {-1, 1}

IsManual(mv) == mv.production_order = None

StockMovementCreateView_post(material, product, movement_type, quantity) ==
    /\ BagCardinality(filter(movements, IsManual)) < MaxManual
    /\ StockMovement_save([material |-> material, product |-> product,
                           movement_type |-> movement_type,
                           reason |-> "adjustment", quantity |-> quantity,
                           production_order |-> None, req |-> None])
    /\ UNCHANGED <<poVars, reqVars, restVars>>

\* ----------------------------------------------------------- production
PO_STATUS_CHOICES ==
    {"planned", "approved", "in_progress", "completed", "cancelled", "on_hold"}

\* ProductionOrder.materials_needed
multiplier(o) == productionOrders[o].planned_quantity \div yield_quantity

Max0(x) == IF x > 0 THEN x ELSE 0

materials_needed(o) ==
    [i \in 1..Len(recipe_items) |->
        [material |-> recipe_items[i].material,
         quantity_needed |-> recipe_items[i].quantity * multiplier(o),
         available_stock |-> Material_current_stock(recipe_items[i].material),
         shortage |-> Max0(recipe_items[i].quantity * multiplier(o)
                           - Material_current_stock(recipe_items[i].material))]]

\* mutant: the stock is not checked
can_start_production_unchecked(o) == TRUE

\* ProductionOrder.can_start_production
can_start_production(o) ==
    \A i \in 1..Len(recipe_items) : materials_needed(o)[i].shortage = 0

\* The movement reserve_materials creates for recipe item i of order o.
ReservationMovement(o, i, r) ==
    [material |-> recipe_items[i].material, product |-> None,
     movement_type |-> "out", reason |-> "production",
     quantity |-> -(recipe_items[i].quantity * multiplier(o)),
     production_order |-> o, req |-> r]

\* StockMovement.objects.create(...) inside reserve_materials: the row as
\* save() stores it.
ReservationStored(o, i, r) ==
    [ReservationMovement(o, i, r) EXCEPT
        !.quantity = StockMovement_clean_quantity(ReservationMovement(o, i, r))]

RECURSIVE AppendReservations(_, _, _, _)
AppendReservations(rows, o, i, r) ==
    IF i > Len(recipe_items) THEN rows
    ELSE AppendReservations(rows (+) SetToBag({ReservationStored(o, i, r)}),
                            o, i + 1, r)

RECURSIVE AddReservations(_, _, _)
AddReservations(l, o, i) ==
    IF i > Len(recipe_items) THEN l
    ELSE AddReservations(
            [l EXCEPT ![recipe_items[i].material] =
                @ + ReservationStored(o, i, None).quantity],
            o, i + 1)

\* ProductionOrder.reserve_materials, run to the end without interruption.
reserve_materials(o) ==
    /\ can_start_production(o)
    /\ BagCardinality(movements) + Len(recipe_items) <= MaxMovements
    /\ movements' = AppendReservations(movements, o, 1, None)
    /\ ledger' = AddReservations(ledger, o, 1)

\* ProductionOrderAdmin.reserve_materials for one selected order: only
\* orders in status 'approved'; ValueError is caught and reported.
Admin_reserve_materials(o) ==
    /\ productionOrders[o].status = "approved"
    /\ \/ reserve_materials(o)
       \/ /\ ~can_start_production(o)
          /\ UNCHANGED stockVars
    /\ UNCHANGED <<poVars, reqVars, restVars>>

\* ProductionOrderAdmin.start_production
Admin_start_production(o) ==
    /\ productionOrders[o].status = "approved"
    /\ can_start_production(o)
    /\ productionOrders' = [productionOrders EXCEPT
                              ![o].status = "in_progress",
                              ![o].actual_start_date = Some(now)]
    /\ UNCHANGED <<stockVars, reqVars, restVars>>

\* ProductionOrder.complete_production(actual_quantity=None)
complete_production(o) ==
    LET actual_quantity == productionOrders[o].planned_quantity
    IN  /\ StockMovement_save([material |-> None, product |-> recipe_product,
                               movement_type |-> "in", reason |-> "production",
                               quantity |-> actual_quantity,
                               production_order |-> o, req |-> None])
        /\ productionOrders' = [productionOrders EXCEPT
                                  ![o].produced_quantity = actual_quantity,
                                  ![o].status = "completed",
                                  ![o].actual_end_date =
                                      IF @ = Null THEN Some(now) ELSE @]

\* ProductionOrderAdmin.complete_production for one selected order
Admin_complete_production(o) ==
    /\ productionOrders[o].status = "in_progress"
    /\ complete_production(o)
    /\ UNCHANGED <<reqVars, restVars>>

\* PATCH /api/v1/production-orders/{id}/ with a status: the serializer's
\* ChoiceField accepts only STATUS_CHOICES.
ProductionOrder_patch_status(o, status) ==
    /\ status \in PO_STATUS_CHOICES
    /\ productionOrders[o].status # status
    /\ productionOrders' = [productionOrders EXCEPT ![o].status = status]
    /\ UNCHANGED <<stockVars, reqVars, restVars>>

\* ------------------------------------------------------------------ Init
\* A populated database: two planned production orders on the recipe, two
\* draft sales orders, the master data they refer to; no stock movement, no
\* sales order item, no payable or receivable yet.
NoResponse == [api |-> FALSE, auth |-> FALSE, status |-> 0, body |-> [type |-> "none"]]
NoOp == [op |-> "none", table |-> None, id |-> None]
\* a request that is not inside make_payment
IdlePayment == [pc |-> "idle", table |-> None, account |-> None, amount |-> 0, paid_amount |-> 0, status |-> None, error |-> None]
\* the slot of a Payroll row that does not exist
NoPayroll ==
    [exists |-> FALSE, payroll_number |-> "", employee |-> None,
     reference_month |-> [month |-> 1, day |-> 1], status |-> "draft",
     overtime_hours |-> 0, base_salary |-> 0, overtime_amount |-> 0,
     other_earnings |-> 0, gross_salary |-> 0, inss_amount |-> 0,
     irrf_amount |-> 0, other_deductions |-> 0, total_deductions |-> 0,
     net_salary |-> 0, fresh |-> FALSE]

Init ==
    /\ movements = EmptyBag
    /\ ledger = [i \in Materials \cup Products |-> 0]
    /\ productionOrders = [o \in ProductionOrderIds |->
          [exists |-> TRUE, status |-> "planned", planned_quantity |-> 1,
           produced_quantity |-> 0,
           planned_start_date |-> 1, planned_end_date |-> 2,
           actual_start_date |-> Null, actual_end_date |-> Null,
           supervisor |-> "e1"]]
    /\ reqPc = [r \in Requests |-> "idle"]
    /\ reqOrder = [r \in Requests |-> None]
    /\ reqIdx = [r \in Requests |-> 0]
    /\ reqError = [r \in Requests |-> None]
    /\ salesOrders = [s \in SalesOrderIds |->
          [exists |-> TRUE, status |-> "draft", customer |-> "k1",
           subtotal |-> 0, discount_percentage |-> 0, discount_amount |-> 0,
           tax_percentage |-> 0, tax_amount |-> 0, shipping_cost |-> 0,
           total_amount |-> 0]]
    /\ orderItems = [i \in OrderItemIds |->
          [exists |-> FALSE, sales_order |-> None, product |-> None,
           quantity |-> 0, unit_price |-> 0, discount_percentage |-> 0,
           discount_amount |-> 0, total_price |-> 0]]
    /\ response = NoResponse
    /\ categories = [c \in CategoryIds |-> [exists |-> TRUE, is_active |-> TRUE]]
    /\ suppliers = [u \in SupplierIds |->
          [exists |-> TRUE, is_active |-> TRUE, credit_limit |-> Null]]
    /\ employees = [e \in EmployeeIds |->
          [exists |-> TRUE, is_active |-> TRUE, user_is_active |-> TRUE]]
    /\ materialRows = [m \in Materials |->
          [category |-> "c1", supplier |-> IF m = "m1" THEN "u1" ELSE None,
           minimum_stock |-> 0, maximum_stock |-> Null]]
    /\ productRows = [p \in Products |-> [sale_price |-> 1, minimum_stock |-> 0]]
    /\ customers = [k \in CustomerIds |-> [credit_limit |-> 0]]
    /\ payables = [a \in PayableIds |->
          [exists |-> FALSE, supplier |-> "u1", original_amount |-> 1,
           paid_amount |-> 0, invoice_date |-> 1, due_date |-> 1,
           status |-> "pending", interest_amount |-> 0,
           fine_amount |-> 0, discount_amount |-> 0]]
    /\ receivables = [b \in ReceivableIds |->
          [exists |-> FALSE, original_amount |-> 1, paid_amount |-> 0,
           issue_date |-> 1, due_date |-> 1, status |-> "pending",
           interest_amount |-> 0, fine_amount |-> 0, discount_amount |-> 0]]
    /\ payments = EmptyBag
    /\ payReq = [r \in Requests |-> IdlePayment]
    /\ payrolls = [y \in PayrollIds |-> NoPayroll]
    /\ now = 1
    /\ lastOp = NoOp

vars == <<movements, ledger, productionOrders, reqPc, reqOrder, reqIdx,
          reqError, salesOrders, orderItems, response, categories, suppliers,
          employees, materialRows, productRows, customers, payables,
          receivables, payments, payReq, payrolls, now, lastOp>>

\* the database: every variable but the request bookkeeping and histories
db == <<movements, productionOrders, salesOrders, orderItems, categories,
        suppliers, employees, materialRows, productRows, customers, payables,
        receivables, payments, payrolls>>

\* ------------------------------------------------------------ SpecStock
NextStock ==
    \/ \E m \in Materials \cup {None}, p \in Products \cup {None},
          t \in MOVEMENT_TYPE_CHOICES, q \in ManualQuantities :
          StockMovementCreateView_post(m, p, t, q)
    \/ \E o \in ProductionOrderIds, s \in {"approved"} :
          ProductionOrder_patch_status(o, s)
    \/ \E o \in ProductionOrderIds : Admin_reserve_materials(o)
    \/ \E o \in ProductionOrderIds : Admin_start_production(o)
    \/ \E o \in ProductionOrderIds : Admin_complete_production(o)

SpecStock == Init /\ [][NextStock]_vars

\* C1: the current_stock of every material and every product equals the sum
\* of the signed quantities of all stock movements recorded for it (the
\* running sum kept as each movement is stored), and is 0 when the item has
\* no movements.
CurrentStockIsSumOfMovements ==
    /\ \A m \in Materials :
          /\ Material_current_stock(m) = ledger[m]
          /\ (\A mv \in DOMAIN movements : mv.material # m)
                => Material_current_stock(m) = 0
    /\ \A p \in Products :
          /\ Product_current_stock(p) = ledger[p]
          /\ (\A mv \in DOMAIN movements : mv.product # p)
                => Product_current_stock(p) = 0

\* A manual exit, a reservation and a completion have all been recorded and
\* some stock is not zero.
CurrentStockWitness ==
    /\ \E mv \in DOMAIN movements :
          mv.production_order = None /\ mv.movement_type = "out"
    /\ \E mv \in DOMAIN movements :
          mv.production_order # None /\ mv.material # None
    /\ \E mv \in DOMAIN movements :
          mv.production_order # None /\ mv.product # None
    /\ \E m \in Materials : Material_current_stock(m) # 0

\* ------------------------------------------------------------- SpecConc
\* Two admin requests run ProductionOrderAdmin.reserve_materials at the same
\* time; each step is one database statement.  No lock is taken and no
\* transaction is opened (no select_for_update, no atomic block anywhere).

\* can_start_production() of reserve_materials: the SELECTs of the check.
ReserveCheck(r, o) ==
    /\ reqPc[r] = "idle"
    /\ productionOrders[o].status = "approved"
    /\ reqOrder' = [reqOrder EXCEPT ![r] = o]
    /\ IF can_start_production(o)
       THEN /\ reqPc' = [reqPc EXCEPT ![r] = "reserving"]
            /\ reqIdx' = [reqIdx EXCEPT ![r] = 1]
            /\ UNCHANGED reqError
       ELSE /\ reqPc' = [reqPc EXCEPT ![r] = "done"]
            /\ reqError' = [reqError EXCEPT ![r] = "ValueError"]
            /\ UNCHANGED reqIdx
    /\ UNCHANGED <<stockVars, poVars, restVars>>

\* One iteration of the loop: StockMovement.objects.create for item reqIdx.
ReserveCreate(r) ==
    /\ reqPc[r] = "reserving"
    /\ BagCardinality(movements) < MaxMovements
    /\ LET stored == ReservationStored(reqOrder[r], reqIdx[r], r)
       IN  /\ movements' = movements (+) SetToBag({stored})
           /\ ledger' = [ledger EXCEPT ![stored.material] = @ + stored.quantity]
    /\ reqIdx' = [reqIdx EXCEPT ![r] = @ + 1]
    /\ reqPc' = [reqPc EXCEPT ![r] =
                    IF reqIdx[r] = Len(recipe_items) THEN "done" ELSE "reserving"]
    /\ UNCHANGED <<poVars, reqOrder, reqError, restVars>>

\* Rows a request wrote, and the table without them (a rollback).
WrittenBy(r) == filter(movements, LAMBDA mv : mv.req = r)

Rollback(r) == filter(movements, LAMBDA mv : mv.req # r)

\* The INSERT of a later item raises (decimal.InvalidOperation for a
\* quantity or total_cost beyond max_digits, or a database error): the
\* request ends with the exception.  What it wrote before stays unless the
\* request runs in a transaction.
ReserveFault(r) ==
    /\ reqPc[r] = "reserving"
    /\ reqIdx[r] > 1
    /\ reqPc' = [reqPc EXCEPT ![r] = "done"]
    /\ reqError' = [reqError EXCEPT ![r] = "DatabaseError"]
    /\ IF ATOMIC_REQUESTS
       THEN /\ movements' = Rollback(r)
            /\ ledger' = [i \in DOMAIN ledger |->
                            ledger[i] - SumQuantity(
                               filter(WrittenBy(r), LAMBDA mv : ItemOf(mv) = i))]
       ELSE UNCHANGED stockVars
    /\ UNCHANGED <<poVars, reqOrder, reqIdx, restVars>>

\* Stock received before the requests: manual entries of type 'in'.
StockIn(m, q) ==
    StockMovementCreateView_post(m, None, "in", q)

NextConc ==
    \/ \E m \in Materials : StockIn(m, 1)
    \/ \E o \in ProductionOrderIds, s \in {"approved"} :
          ProductionOrder_patch_status(o, s)
    \/ \E r \in Requests, o \in ProductionOrderIds : ReserveCheck(r, o)
    \/ \E r \in Requests : ReserveCreate(r)
    \/ \E r \in Requests : ReserveFault(r)

SpecConc == Init /\ [][NextConc]_vars

\* C2: two requests that concurrently call reserve_materials give the same
\* result as one after the other: with only stock-in entries besides them,
\* no material's current_stock goes below zero (when stock covers one order
\* at most one reservation goes through).
ConcurrentReservationsKeepStock ==
    (reqOrder["r1"] # reqOrder["r2"]) =>
        \A m \in Materials : Material_current_stock(m) >= 0

\* C3: a request that failed partway leaves none of its writes behind.
FailedRequestWritesNothing ==
    \A r \in Requests :
        reqError[r] = "DatabaseError" => DOMAIN WrittenBy(r) = {}

\* -------------------------------------------------------------- SpecApi
\* JSON values: a string, an object (a function from keys to JSON values),
\* serialized rows (Data), or Django's HTML error page.
Str(v) == [type |-> "string", value |-> v]
Obj(f) == [type |-> "object", fields |-> f]
Data == [type |-> "data"]
Html == [type |-> "html"]

\* REST_FRAMEWORK['EXCEPTION_HANDLER'] names api.exceptions.custom_exception_handler
EXCEPTION_HANDLER_REGISTERED == TRUE

get_error_code(status_code) ==
    CASE status_code = 400 -> "validation_error"
      [] status_code = 401 -> "authentication_required"
      [] status_code = 403 -> "permission_denied"
      [] status_code = 404 -> "not_found"
      [] status_code = 405 -> "method_not_allowed"
      [] status_code = 406 -> "not_acceptable"
      [] status_code = 409 -> "conflict"
      [] status_code = 422 -> "unprocessable_entity"
      [] status_code = 429 -> "too_many_requests"
      [] status_code = 500 -> "internal_server_error"
      [] status_code = 502 -> "bad_gateway"
      [] status_code = 503 -> "service_unavailable"
      [] OTHER -> "unknown_error"

get_error_message(status_code, original_data) ==
    CASE status_code = 400 -> "Dados invalidos fornecidos"
      [] status_code = 401 -> "Autenticacao necessaria"
      [] status_code = 403 -> "Permissao negada"
      [] status_code = 404 -> "Recurso nao encontrado"
      [] status_code = 405 -> "Metodo nao permitido"
      [] status_code = 409 -> "Conflito de dados"
      [] status_code = 422 -> "Entidade nao processavel"
      [] status_code = 429 -> "Muitas requisicoes"
      [] status_code >= 500 -> "Erro interno do servidor"
      [] OTHER ->
           IF original_data.type = "object"
              /\ "detail" \in DOMAIN original_data.fields
           THEN original_data.fields.detail.value
           ELSE IF original_data.type = "object"
                   /\ "message" \in DOMAIN original_data.fields
           THEN original_data.fields.message.value
           ELSE "Erro desconhecido"

format_error_details(original_data) ==
    IF original_data.type = "object"
    THEN Obj([k \in DOMAIN original_data.fields \ {"detail", "message"} |->
                original_data.fields[k]])
    ELSE IF original_data.type = "list"
    THEN Obj([errors |-> original_data])
    ELSE Obj([raw |-> Str("raw")])

\* custom_exception_handler, for an exception DRF's own handler turned into
\* a response (status_code, original_data).
custom_exception_handler(status_code, original_data) ==
    Obj([error |-> Obj(
           [code |-> Str(get_error_code(status_code)),
            message |-> Str(get_error_message(status_code, original_data)),
            details |-> format_error_details(original_data)])])

\* Response(data, status) returned by a handler.
Respond(auth, status_code, body) ==
    response' = [api |-> TRUE, auth |-> auth, status |-> status_code,
                 body |-> body]

\* An APIException (ValidationError, NotAuthenticated, Http404) raised inside
\* a DRF view: the registered exception handler builds the response.
RaiseApiException(auth, status_code, original_data) ==
    Respond(auth, status_code,
            IF EXCEPTION_HANDLER_REGISTERED
            THEN custom_exception_handler(status_code, original_data)
            ELSE original_data)

\* Any other exception: DRF's handler returns None, the custom handler
\* returns None, the exception propagates and Django answers 500 itself.
RaiseUnhandled(auth) == Respond(auth, 500, Html)

\* mutant: permission_classes = [AllowAny]
ApiDispatchAllowAny(auth, Handler) == Handler

\* APIView.initial: permission_classes = [IsAuthenticated] of
\* BaseViewSetMixin is checked before the handler runs.  401 or 403 depends
\* on the authentication classes configured.
ApiDispatch(auth, Handler) ==
    \/ /\ ~auth
       /\ \E code \in {401, 403} :
            RaiseApiException(auth, code,
                Obj([detail |-> Str("Authentication credentials were not provided.")]))
       /\ UNCHANGED <<stockVars, poVars, reqVars, salesVars, refVars, finVars,
                      miscVars>>
    \/ /\ auth
       /\ Handler

SO_STATUS_CHOICES ==
    {"draft", "confirmed", "in_production", "ready", "delivered",
     "partially_paid", "paid", "cancelled"}

\* ProductionOrderViewSet.start_production.  ProductionOrder defines no
\* start_production method, so the call behind the status test raises
\* AttributeError.
ProductionOrderViewSet_start_production(auth, o) ==
    /\ productionOrders[o].exists
    /\ IF productionOrders[o].status # "pending"
       THEN Respond(auth, 400,
              Obj([error |-> Str("Production order must be in pending status to start")]))
       ELSE RaiseUnhandled(auth)
    /\ UNCHANGED <<stockVars, poVars, reqVars, salesVars, refVars, finVars,
                   miscVars>>

\* ProductionOrderViewSet.complete_production
ProductionOrderViewSet_complete_production(auth, o) ==
    /\ productionOrders[o].exists
    /\ IF productionOrders[o].status # "in_progress"
       THEN /\ Respond(auth, 400,
                 Obj([error |-> Str("Production order must be in progress to complete")]))
            /\ UNCHANGED <<stockVars, poVars>>
       ELSE /\ complete_production(o)
            /\ Respond(auth, 200, Data)
    /\ UNCHANGED <<reqVars, salesVars, refVars, finVars, miscVars>>

\* SalesOrderViewSet.confirm
SalesOrderViewSet_confirm(auth, s) ==
    /\ salesOrders[s].exists
    /\ IF salesOrders[s].status # "pending"
       THEN /\ Respond(auth, 400,
                 Obj([error |-> Str("Sales order must be in pending status to confirm")]))
            /\ UNCHANGED salesVars
       ELSE /\ salesOrders' = [salesOrders EXCEPT ![s].status = "confirmed"]
            /\ UNCHANGED orderItems
            /\ Respond(auth, 200, Data)
    /\ UNCHANGED <<stockVars, poVars, reqVars, refVars, finVars, miscVars>>

\* PATCH production-orders/{id}/ {status}: ProductionOrderSerializer's
\* ChoiceField rejects a value outside STATUS_CHOICES with ValidationError.
ProductionOrderViewSet_partial_update(auth, o, status) ==
    /\ productionOrders[o].exists
    /\ IF status \in PO_STATUS_CHOICES
       THEN /\ productionOrders' = [productionOrders EXCEPT ![o].status = status]
            /\ Respond(auth, 200, Data)
       ELSE /\ RaiseApiException(auth, 400, Obj([status |-> Str("not a valid choice")]))
            /\ UNCHANGED poVars
    /\ UNCHANGED <<stockVars, reqVars, salesVars, refVars, finVars, miscVars>>

\* PATCH sales-orders/{id}/ {status}
SalesOrderViewSet_partial_update(auth, s, status) ==
    /\ salesOrders[s].exists
    /\ IF status \in SO_STATUS_CHOICES
       THEN /\ salesOrders' = [salesOrders EXCEPT ![s].status = status]
            /\ UNCHANGED orderItems
            /\ Respond(auth, 200, Data)
       ELSE /\ RaiseApiException(auth, 400, Obj([status |-> Str("not a valid choice")]))
            /\ UNCHANGED salesVars
    /\ UNCHANGED <<stockVars, poVars, reqVars, refVars, finVars, miscVars>>

\* GET production-orders/ (list)
ProductionOrderViewSet_list(auth) ==
    /\ Respond(auth, 200, Data)
    /\ UNCHANGED <<stockVars, poVars, reqVars, salesVars, refVars, finVars,
                   miscVars>>

\* GET materials/statistics/: filter(current_stock__lte=...) names a
\* property, not a column; the ORM raises FieldError.
MaterialViewSet_statistics(auth) ==
    /\ RaiseUnhandled(auth)
    /\ UNCHANGED <<stockVars, poVars, reqVars, salesVars, refVars, finVars,
                   miscVars>>

\* ProductionOrderStatusUpdateView.post (web, LoginRequiredMixin): stores
\* request.POST['status'] as it comes.  A missing status is NULL, save()
\* raises IntegrityError, which the view catches.
ProductionOrderStatusUpdateView_post(auth, o, new_status) ==
    /\ productionOrders[o].exists
    /\ IF ~auth
       THEN /\ response' = [api |-> FALSE, auth |-> FALSE, status |-> 302,
                            body |-> Html]
            /\ UNCHANGED poVars
       ELSE IF new_status = None
       THEN /\ response' = [api |-> FALSE, auth |-> TRUE, status |-> 200,
                            body |-> Obj([success |-> Str("false"),
                                          message |-> Str("Erro ao atualizar status")])]
            /\ UNCHANGED poVars
       ELSE /\ productionOrders' = [productionOrders EXCEPT
                 ![o].status = new_status,
                 ![o].actual_start_date =
                     IF new_status = "in_progress"
                        /\ productionOrders[o].status = "planned"
                     THEN Some(now) ELSE @,
                 ![o].actual_end_date =
                     IF ~(new_status = "in_progress"
                          /\ productionOrders[o].status = "planned")
                        /\ new_status = "completed"
                     THEN Some(now) ELSE @]
            /\ response' = [api |-> FALSE, auth |-> TRUE, status |-> 200,
                            body |-> Obj([success |-> Str("true"),
                                          message |-> Str("Status atualizado")])]
    /\ UNCHANGED <<stockVars, reqVars, salesVars, refVars, finVars, miscVars>>

PostedProductionStatuses == {"in_progress", "pending", "bogus", None}
PatchedProductionStatuses == {"approved", "in_progress", "bogus"}
PatchedSalesStatuses == {"confirmed", "cancelled", "bogus"}

\* the orders the API requests of this specification address
ApiProductionOrders == {"o1"}
ApiSalesOrders == {"s1"}

NextApi ==
    \/ \E auth \in BOOLEAN, o \in ApiProductionOrders :
          ApiDispatch(auth, ProductionOrderViewSet_start_production(auth, o))
    \/ \E auth \in BOOLEAN, o \in ApiProductionOrders :
          ApiDispatch(auth, ProductionOrderViewSet_complete_production(auth, o))
    \/ \E auth \in BOOLEAN, s \in ApiSalesOrders :
          ApiDispatch(auth, SalesOrderViewSet_confirm(auth, s))
    \/ \E auth \in BOOLEAN, o \in ApiProductionOrders,
          st \in PatchedProductionStatuses :
          ApiDispatch(auth, ProductionOrderViewSet_partial_update(auth, o, st))
    \/ \E auth \in BOOLEAN, s \in ApiSalesOrders, st \in PatchedSalesStatuses :
          ApiDispatch(auth, SalesOrderViewSet_partial_update(auth, s, st))
    \/ \E auth \in BOOLEAN : ApiDispatch(auth, ProductionOrderViewSet_list(auth))
    \/ \E auth \in BOOLEAN : ApiDispatch(auth, MaterialViewSet_statistics(auth))
    \/ \E auth \in BOOLEAN, o \in ApiProductionOrders,
          st \in PostedProductionStatuses :
          ProductionOrderStatusUpdateView_post(auth, o, st)

SpecApi == Init /\ [][NextApi]_vars

\* C4: the status of every sales order and every production order is one of
\* the values listed in its model's STATUS_CHOICES.
StatusAlwaysInChoices ==
    /\ \A o \in ProductionOrderIds :
          productionOrders[o].status \in PO_STATUS_CHOICES
    /\ \A s \in SalesOrderIds : salesOrders[s].status \in SO_STATUS_CHOICES

IsErrorEnvelope(body) ==
    /\ body.type = "object"
    /\ DOMAIN body.fields = {"error"}
    /\ body.fields.error.type = "object"
    /\ DOMAIN body.fields.error.fields = {"code", "message", "details"}

\* C5: every 4xx or 5xx response of the JSON API has a body of the shape
\* {error: {code, message, details}}.
ErrorResponsesHaveEnvelope ==
    (response.api /\ response.status >= 400) => IsErrorEnvelope(response.body)

\* C7: a request without authentication is answered 401 or 403, gets no
\* data and changes no record; a request with authentication is served
\* (never answered 401 or 403).
UnauthenticatedRequestsDenied ==
    [][ /\ (response'.api /\ ~response'.auth) =>
             /\ response'.status \in {401, 403}
             /\ response'.body # Data
             /\ db' = db
        /\ (response'.api /\ response'.auth) => response'.status \notin {401, 403}
      ]_vars

\* An unauthenticated request was refused after authenticated ones had
\* completed an order and stored the finished goods.
UnauthenticatedWitness ==
    /\ response.api /\ ~response.auth /\ response.status = 403
    /\ \E o \in ProductionOrderIds : productionOrders[o].status = "completed"
    /\ movements # EmptyBag

\* ----------------------------------------------------------- SpecDelete
\* redirect(success_url) of a web view
WebRedirect == [api |-> FALSE, auth |-> TRUE, status |-> 302, body |-> Html]

Op(op, table, id) == [op |-> op, table |-> table, id |-> id]

\* mutant: the view removes the row
CategoryDeleteView_hard_delete(c) ==
    /\ categories[c].exists
    /\ categories' = [categories EXCEPT ![c].exists = FALSE]
    /\ lastOp' = Op("delete_view", "category", c)
    /\ response' = WebRedirect
    /\ UNCHANGED <<suppliers, employees, materialRows, productRows, customers>>
    /\ UNCHANGED <<stockVars, poVars, reqVars, salesVars, finVars, now>>

\* CategoryDeleteView.delete (logged-in user)
CategoryDeleteView_delete(c) ==
    /\ categories[c].exists
    /\ categories' = [categories EXCEPT ![c].is_active = FALSE]
    /\ lastOp' = Op("delete_view", "category", c)
    /\ response' = WebRedirect
    /\ UNCHANGED <<suppliers, employees, materialRows, productRows, customers>>
    /\ UNCHANGED <<stockVars, poVars, reqVars, salesVars, finVars, now>>

\* supplier.materials.exists()
supplier_materials_exists(u) ==
    \E m \in Materials : materialRows[m].supplier = u

\* SupplierDeleteView.delete: deactivates a supplier that has materials,
\* removes one that has none.
SupplierDeleteView_delete(u) ==
    /\ suppliers[u].exists
    /\ IF supplier_materials_exists(u)
       THEN suppliers' = [suppliers EXCEPT ![u].is_active = FALSE]
       ELSE /\ \A a \in PayableIds :
                 ~(payables[a].exists /\ payables[a].supplier = u)
            /\ suppliers' = [suppliers EXCEPT ![u].exists = FALSE]
    /\ lastOp' = Op("delete_view", "supplier", u)
    /\ response' = WebRedirect
    /\ UNCHANGED <<categories, employees, materialRows, productRows, customers>>
    /\ UNCHANGED <<stockVars, poVars, reqVars, salesVars, finVars, now>>

\* EmployeeDeleteView.delete: deactivates the employee and the user.
EmployeeDeleteView_delete(e) ==
    /\ employees[e].exists
    /\ employees' = [employees EXCEPT ![e].is_active = FALSE,
                                      ![e].user_is_active = FALSE]
    /\ lastOp' = Op("delete_view", "employee", e)
    /\ response' = WebRedirect
    /\ UNCHANGED <<categories, suppliers, materialRows, productRows, customers>>
    /\ UNCHANGED <<stockVars, poVars, reqVars, salesVars, finVars, now>>

\* DELETE categories/{id}/: ModelViewSet.destroy -> instance.delete().
\* Material.category and Product.category are PROTECT: ProtectedError is no
\* APIException, Django answers 500.
CategoryViewSet_destroy(auth, c) ==
    /\ categories[c].exists
    /\ IF \E m \in Materials : materialRows[m].category = c
       THEN /\ RaiseUnhandled(auth)
            /\ UNCHANGED <<refVars, lastOp>>
       ELSE /\ categories' = [categories EXCEPT ![c].exists = FALSE]
            /\ lastOp' = Op("destroy", "category", c)
            /\ Respond(auth, 204, [type |-> "none"])
            /\ UNCHANGED <<suppliers, employees, materialRows, productRows,
                           customers>>
    /\ UNCHANGED <<stockVars, poVars, reqVars, salesVars, finVars, now>>

\* DELETE suppliers/{id}/: Material.supplier is SET_NULL,
\* AccountsPayable.supplier is PROTECT.
SupplierViewSet_destroy(auth, u) ==
    /\ suppliers[u].exists
    /\ IF \E a \in PayableIds : payables[a].exists /\ payables[a].supplier = u
       THEN /\ RaiseUnhandled(auth)
            /\ UNCHANGED <<refVars, lastOp>>
       ELSE /\ suppliers' = [suppliers EXCEPT ![u].exists = FALSE]
            /\ materialRows' = [m \in Materials |->
                  IF materialRows[m].supplier = u
                  THEN [materialRows[m] EXCEPT !.supplier = None]
                  ELSE materialRows[m]]
            /\ lastOp' = Op("destroy", "supplier", u)
            /\ Respond(auth, 204, [type |-> "none"])
            /\ UNCHANGED <<categories, employees, productRows, customers>>
    /\ UNCHANGED <<stockVars, poVars, reqVars, salesVars, finVars, now>>

\* DELETE employees/{id}/: ProductionOrder.supervisor is PROTECT.
EmployeeViewSet_destroy(auth, e) ==
    /\ employees[e].exists
    /\ IF \E o \in ProductionOrderIds :
            productionOrders[o].exists /\ productionOrders[o].supervisor = e
       THEN /\ RaiseUnhandled(auth)
            /\ UNCHANGED <<refVars, lastOp>>
       ELSE /\ employees' = [employees EXCEPT ![e].exists = FALSE]
            /\ lastOp' = Op("destroy", "employee", e)
            /\ Respond(auth, 204, [type |-> "none"])
            /\ UNCHANGED <<categories, suppliers, materialRows, productRows,
                           customers>>
    /\ UNCHANGED <<stockVars, poVars, reqVars, salesVars, finVars, now>>

NextDelete ==
    \/ \E c \in CategoryIds : CategoryDeleteView_delete(c)
    \/ \E u \in SupplierIds : SupplierDeleteView_delete(u)
    \/ \E e \in EmployeeIds : EmployeeDeleteView_delete(e)
    \/ \E auth \in BOOLEAN, c \in CategoryIds :
          ApiDispatch(auth, CategoryViewSet_destroy(auth, c))
    \/ \E auth \in BOOLEAN, u \in SupplierIds :
          ApiDispatch(auth, SupplierViewSet_destroy(auth, u))
    \/ \E auth \in BOOLEAN, e \in EmployeeIds :
          ApiDispatch(auth, EmployeeViewSet_destroy(auth, e))

SpecDelete == Init /\ [][NextDelete]_vars

\* the row a delete operation addressed
Target(op) ==
    CASE op.table = "category" -> categories[op.id]
      [] op.table = "supplier" -> suppliers[op.id]
      [] op.table = "employee" -> employees[op.id]

FormInvalid == [api |-> FALSE, auth |-> TRUE, status |-> 200, body |-> Html]

Dates == 1..MaxDate

\* dict.get(key): None for a key the dict does not hold
DictGet(data, key) == IF key \in DOMAIN data THEN Some(data[key]) ELSE Null

\* ProductionOrderForm.clean; both dates are required fields, so
\* cleaned_data holds them when clean() compares.
ProductionOrderForm_clean(instance_pk, start_date, end_date) ==
    /\ ~(start_date > end_date)
    /\ ~(instance_pk = None /\ start_date < now)

\* ProductionOrderUpdateView (form_class = ProductionOrderForm)
ProductionOrderUpdateView_post(o, start_date, end_date) ==
    /\ productionOrders[o].exists
    /\ IF ProductionOrderForm_clean(o, start_date, end_date)
       THEN /\ productionOrders' = [productionOrders EXCEPT
                  ![o].planned_start_date = start_date,
                  ![o].planned_end_date = end_date]
            /\ response' = WebRedirect
       ELSE /\ UNCHANGED poVars
            /\ response' = FormInvalid
    /\ UNCHANGED <<stockVars, reqVars, salesVars, refVars, finVars, miscVars>>

\* ProductionOrderSerializer.validate: reads 'start_date' and 'end_date',
\* keys the serializer's data never has (its fields are planned_start_date
\* and planned_end_date).
ProductionOrderSerializer_validate(data) ==
    LET start_date == DictGet(data, "start_date")
        end_date == DictGet(data, "end_date")
    IN  ~(start_date # Null /\ end_date # Null
          /\ start_date[1] > end_date[1])

\* PUT/PATCH production-orders/{id}/ with both planned dates
ProductionOrderViewSet_update(auth, o, start_date, end_date) ==
    LET data == [planned_start_date |-> start_date,
                 planned_end_date |-> end_date]
    IN  /\ productionOrders[o].exists
        /\ IF ProductionOrderSerializer_validate(data)
           THEN /\ productionOrders' = [productionOrders EXCEPT
                      ![o].planned_start_date = data.planned_start_date,
                      ![o].planned_end_date = data.planned_end_date]
                /\ Respond(auth, 200, Data)
           ELSE /\ UNCHANGED poVars
                /\ RaiseApiException(auth, 400,
                      Obj([non_field_errors |-> Str("Start date must be before end date.")]))
        /\ UNCHANGED <<stockVars, reqVars, salesVars, refVars, finVars,
                       miscVars>>

MinValueValidator(limit, value) == value >= limit

\* validators of a nullable field: empty values are not validated
MinValueValidatorOrNull(limit, value) ==
    value = Null \/ MinValueValidator(limit, value[1])

\* AccountsPayableForm: the model validators of its fields, then clean().
\* Money is in cents: Decimal('0.01') is 1.
AccountsPayableForm_is_valid(original_amount, invoice_date, due_date) ==
    /\ MinValueValidator(1, original_amount)
    /\ ~(due_date < invoice_date)

\* AccountsPayableCreateView (form_class = AccountsPayableForm); paid_amount
\* is no form field and takes the model default.
AccountsPayableCreateView_post(a, original_amount, invoice_date, due_date) ==
    /\ ~payables[a].exists
    /\ IF AccountsPayableForm_is_valid(original_amount, invoice_date, due_date)
       THEN /\ payables' = [payables EXCEPT ![a] =
                  [exists |-> TRUE, supplier |-> "u1",
                   original_amount |-> original_amount, paid_amount |-> 0,
                   invoice_date |-> invoice_date, due_date |-> due_date,
                   status |-> "pending", interest_amount |-> 0,
                   fine_amount |-> 0, discount_amount |-> 0]]
            /\ response' = WebRedirect
       ELSE /\ UNCHANGED payables
            /\ response' = FormInvalid
    /\ UNCHANGED <<stockVars, poVars, reqVars, salesVars, refVars,
                   receivables, payVars, miscVars>>

\* AccountsPayableSerializer: the field validators taken from the model,
\* validate_original_amount and validate_paid_amount; no check of the dates.
AccountsPayableSerializer_is_valid(original_amount, paid_amount) ==
    /\ MinValueValidator(1, original_amount)
    /\ MinValueValidator(0, paid_amount)
    /\ ~(original_amount <= 0)
    /\ ~(paid_amount # 0 /\ paid_amount < 0)

\* POST accounts-payable/
AccountsPayableViewSet_create(auth, a, original_amount, paid_amount, invoice_date, due_date) ==
    /\ ~payables[a].exists
    /\ IF AccountsPayableSerializer_is_valid(original_amount, paid_amount)
       THEN /\ payables' = [payables EXCEPT ![a] =
                  [exists |-> TRUE, supplier |-> "u1",
                   original_amount |-> original_amount,
                   paid_amount |-> paid_amount,
                   invoice_date |-> invoice_date, due_date |-> due_date,
                   status |-> "pending", interest_amount |-> 0,
                   fine_amount |-> 0, discount_amount |-> 0]]
            /\ Respond(auth, 201, Data)
       ELSE /\ UNCHANGED payables
            /\ RaiseApiException(auth, 400,
                  Obj([original_amount |-> Str("invalid")]))
    /\ UNCHANGED <<stockVars, poVars, reqVars, salesVars, refVars,
                   receivables, payVars, miscVars>>

\* PATCH accounts-payable/{id}/ with both dates
AccountsPayableViewSet_partial_update(auth, a, invoice_date, due_date) ==
    /\ payables[a].exists
    /\ payables' = [payables EXCEPT ![a].invoice_date = invoice_date,
                                    ![a].due_date = due_date]
    /\ Respond(auth, 200, Data)
    /\ UNCHANGED <<stockVars, poVars, reqVars, salesVars, refVars,
                   receivables, payVars, miscVars>>

NextDates ==
    \/ \E o \in ProductionOrderIds, s, e \in Dates :
          ProductionOrderUpdateView_post(o, s, e)
    \/ \E auth \in BOOLEAN, o \in ProductionOrderIds, s, e \in Dates :
          ApiDispatch(auth, ProductionOrderViewSet_update(auth, o, s, e))
    \/ \E a \in PayableIds, i, d \in Dates :
          AccountsPayableCreateView_post(a, 1, i, d)
    \/ \E auth \in BOOLEAN, a \in PayableIds, i, d \in Dates :
          ApiDispatch(auth, AccountsPayableViewSet_create(auth, a, 1, 0, i, d))
    \/ \E auth \in BOOLEAN, a \in PayableIds, i, d \in Dates :
          ApiDispatch(auth, AccountsPayableViewSet_partial_update(auth, a, i, d))

SpecDates == Init /\ [][NextDates]_vars

\* C8: no production order is stored with planned_start_date after
\* planned_end_date, and no payable with due_date before invoice_date.
DatesOrderedEverywhere ==
    /\ \A o \in ProductionOrderIds :
          productionOrders[o].exists =>
             productionOrders[o].planned_start_date
                <= productionOrders[o].planned_end_date
    /\ \A a \in PayableIds :
          payables[a].exists => payables[a].invoice_date <= payables[a].due_date

\* ---------------------------------------------------------- SpecAmounts
\* submitted amounts: one negative value, zero, and the positive ones
Amounts == (-1)..MaxAmount
NullableAmounts == {Null} \cup {Some(v) : v \in Amounts}

\* MaterialForm / ProductForm: model validators of the fields, then clean()
\* (Python truthiness: 0 and None skip the comparison).
StockLevelsForm_is_valid(minimum_stock, maximum_stock) ==
    /\ MinValueValidator(0, minimum_stock)
    /\ MinValueValidatorOrNull(0, maximum_stock)
    /\ ~(minimum_stock # 0 /\ maximum_stock # Null /\ maximum_stock[1] # 0
         /\ minimum_stock >= maximum_stock[1])

\* MaterialUpdateView (form_class = MaterialForm)
MaterialUpdateView_post(m, minimum_stock, maximum_stock) ==
    /\ IF StockLevelsForm_is_valid(minimum_stock, maximum_stock)
       THEN /\ materialRows' = [materialRows EXCEPT
                  ![m].minimum_stock = minimum_stock,
                  ![m].maximum_stock = maximum_stock]
            /\ response' = WebRedirect
       ELSE /\ UNCHANGED materialRows
            /\ response' = FormInvalid
    /\ UNCHANGED <<categories, suppliers, employees, productRows, customers>>
    /\ UNCHANGED <<stockVars, poVars, reqVars, salesVars, finVars, miscVars>>

\* PATCH materials/{id}/ {minimum_stock}: field validator and
\* MaterialSerializer.validate_minimum_stock
MaterialViewSet_partial_update(auth, m, minimum_stock) ==
    /\ IF MinValueValidator(0, minimum_stock) /\ ~(minimum_stock < 0)
       THEN /\ materialRows' = [materialRows EXCEPT
                  ![m].minimum_stock = minimum_stock]
            /\ Respond(auth, 200, Data)
       ELSE /\ UNCHANGED materialRows
            /\ RaiseApiException(auth, 400,
                  Obj([minimum_stock |-> Str("Minimum stock cannot be negative.")]))
    /\ UNCHANGED <<categories, suppliers, employees, productRows, customers>>
    /\ UNCHANGED <<stockVars, poVars, reqVars, salesVars, finVars, miscVars>>

\* ProductUpdateView (form_class = ProductForm), maximum_stock left blank
ProductUpdateView_post(p, sale_price, minimum_stock) ==
    /\ IF MinValueValidator(1, sale_price)
          /\ StockLevelsForm_is_valid(minimum_stock, Null)
       THEN /\ productRows' = [productRows EXCEPT
                  ![p].sale_price = sale_price,
                  ![p].minimum_stock = minimum_stock]
            /\ response' = WebRedirect
       ELSE /\ UNCHANGED productRows
            /\ response' = FormInvalid
    /\ UNCHANGED <<categories, suppliers, employees, materialRows, customers>>
    /\ UNCHANGED <<stockVars, poVars, reqVars, salesVars, finVars, miscVars>>

\* PATCH products/{id}/ {sale_price, minimum_stock}: field validators and
\* ProductSerializer.validate_sale_price
ProductViewSet_partial_update(auth, p, sale_price, minimum_stock) ==
    /\ IF /\ MinValueValidator(1, sale_price)
          /\ MinValueValidator(0, minimum_stock)
          /\ ~(sale_price <= 0)
       THEN /\ productRows' = [productRows EXCEPT
                  ![p].sale_price = sale_price,
                  ![p].minimum_stock = minimum_stock]
            /\ Respond(auth, 200, Data)
       ELSE /\ UNCHANGED productRows
            /\ RaiseApiException(auth, 400,
                  Obj([sale_price |-> Str("Sale price must be greater than zero.")]))
    /\ UNCHANGED <<categories, suppliers, employees, materialRows, customers>>
    /\ UNCHANGED <<stockVars, poVars, reqVars, salesVars, finVars, miscVars>>

\* SupplierForm.clean_credit_limit
SupplierForm_clean_credit_limit(credit_limit) ==
    ~(credit_limit # Null /\ credit_limit[1] < 0)

\* SupplierUpdateView (form_class = SupplierForm)
SupplierUpdateView_post(u, credit_limit) ==
    /\ suppliers[u].exists
    /\ IF SupplierForm_clean_credit_limit(credit_limit)
       THEN /\ suppliers' = [suppliers EXCEPT ![u].credit_limit = credit_limit]
            /\ response' = WebRedirect
       ELSE /\ UNCHANGED suppliers
            /\ response' = FormInvalid
    /\ UNCHANGED <<categories, employees, materialRows, productRows, customers>>
    /\ UNCHANGED <<stockVars, poVars, reqVars, salesVars, finVars, miscVars>>

\* SupplierSerializer.validate_credit_limit: `if value and value < 0`
SupplierSerializer_validate_credit_limit(value) ==
    ~(value # Null /\ value[1] # 0 /\ value[1] < 0)

\* PATCH suppliers/{id}/ {credit_limit}
SupplierViewSet_partial_update(auth, u, credit_limit) ==
    /\ suppliers[u].exists
    /\ IF SupplierSerializer_validate_credit_limit(credit_limit)
       THEN /\ suppliers' = [suppliers EXCEPT ![u].credit_limit = credit_limit]
            /\ Respond(auth, 200, Data)
       ELSE /\ UNCHANGED suppliers
            /\ RaiseApiException(auth, 400,
                  Obj([credit_limit |-> Str("Credit limit cannot be negative.")]))
    /\ UNCHANGED <<categories, employees, materialRows, productRows, customers>>
    /\ UNCHANGED <<stockVars, poVars, reqVars, salesVars, finVars, miscVars>>

\* SupplierAdmin change form: the default ModelForm of the admin, which runs
\* the validators of the model fields.  Supplier.credit_limit declares none.
SupplierAdmin_change(u, credit_limit) ==
    /\ suppliers[u].exists
    /\ suppliers' = [suppliers EXCEPT ![u].credit_limit = credit_limit]
    /\ response' = WebRedirect
    /\ UNCHANGED <<categories, employees, materialRows, productRows, customers>>
    /\ UNCHANGED <<stockVars, poVars, reqVars, salesVars, finVars, miscVars>>

\* CustomerUpdateView (form_class = CustomerForm): Customer.credit_limit
\* carries MinValueValidator(0).
CustomerUpdateView_post(k, credit_limit) ==
    /\ IF MinValueValidator(0, credit_limit)
       THEN /\ customers' = [customers EXCEPT ![k].credit_limit = credit_limit]
            /\ response' = WebRedirect
       ELSE /\ UNCHANGED customers
            /\ response' = FormInvalid
    /\ UNCHANGED <<categories, suppliers, employees, materialRows, productRows>>
    /\ UNCHANGED <<stockVars, poVars, reqVars, salesVars, finVars, miscVars>>

\* CustomerCreditView.post: CustomerCreditForm.new_credit_limit, min_value=0
CustomerCreditView_post(k, new_credit_limit) ==
    /\ IF new_credit_limit >= 0
       THEN /\ customers' = [customers EXCEPT ![k].credit_limit = new_credit_limit]
            /\ response' = WebRedirect
       ELSE /\ UNCHANGED customers
            /\ response' = FormInvalid
    /\ UNCHANGED <<categories, suppliers, employees, materialRows, productRows>>
    /\ UNCHANGED <<stockVars, poVars, reqVars, salesVars, finVars, miscVars>>

\* PATCH customers/{id}/ {credit_limit}: field validator and
\* CustomerSerializer.validate_credit_limit
CustomerViewSet_partial_update(auth, k, credit_limit) ==
    /\ IF MinValueValidator(0, credit_limit) /\ ~(credit_limit < 0)
       THEN /\ customers' = [customers EXCEPT ![k].credit_limit = credit_limit]
            /\ Respond(auth, 200, Data)
       ELSE /\ UNCHANGED customers
            /\ RaiseApiException(auth, 400,
                  Obj([credit_limit |-> Str("Credit limit cannot be negative.")]))
    /\ UNCHANGED <<categories, suppliers, employees, materialRows, productRows>>
    /\ UNCHANGED <<stockVars, poVars, reqVars, salesVars, finVars, miscVars>>

\* the rows the requests of this specification address
AmountMaterials == {"m1"}
AmountSuppliers == {"u1"}

NextAmounts ==
    \/ \E m \in AmountMaterials, q \in Amounts, x \in NullableAmounts :
          MaterialUpdateView_post(m, q, x)
    \/ \E auth \in BOOLEAN, m \in AmountMaterials, q \in Amounts :
          ApiDispatch(auth, MaterialViewSet_partial_update(auth, m, q))
    \/ \E p \in Products, v, q \in Amounts : ProductUpdateView_post(p, v, q)
    \/ \E auth \in BOOLEAN, p \in Products, v, q \in Amounts :
          ApiDispatch(auth, ProductViewSet_partial_update(auth, p, v, q))
    \/ \E u \in AmountSuppliers, v \in NullableAmounts :
          SupplierUpdateView_post(u, v)
    \/ \E auth \in BOOLEAN, u \in AmountSuppliers, v \in NullableAmounts :
          ApiDispatch(auth, SupplierViewSet_partial_update(auth, u, v))
    \/ \E u \in AmountSuppliers, v \in NullableAmounts :
          SupplierAdmin_change(u, v)
    \/ \E k \in CustomerIds, v \in Amounts : CustomerUpdateView_post(k, v)
    \/ \E k \in CustomerIds, v \in Amounts : CustomerCreditView_post(k, v)
    \/ \E auth \in BOOLEAN, k \in CustomerIds, v \in Amounts :
          ApiDispatch(auth, CustomerViewSet_partial_update(auth, k, v))
    \/ \E a \in PayableIds, v \in Amounts :
          AccountsPayableCreateView_post(a, v, 1, 1)
    \/ \E auth \in BOOLEAN, a \in PayableIds, v, w \in Amounts :
          ApiDispatch(auth, AccountsPayableViewSet_create(auth, a, v, w, 1, 1))

SpecAmounts == Init /\ [][NextAmounts]_vars

NonNegative(value) == value >= 0

\* C9: no stored minimum_stock, sale_price, credit_limit, original_amount or
\* paid_amount is negative.
NoNegativeStoredAmount ==
    /\ \A m \in Materials : NonNegative(materialRows[m].minimum_stock)
    /\ \A p \in Products :
          /\ NonNegative(productRows[p].minimum_stock)
          /\ NonNegative(productRows[p].sale_price)
    /\ \A u \in SupplierIds :
          suppliers[u].credit_limit = Null
             \/ NonNegative(suppliers[u].credit_limit[1])
    /\ \A k \in CustomerIds : NonNegative(customers[k].credit_limit)
    /\ \A a \in PayableIds :
          payables[a].exists =>
             /\ NonNegative(payables[a].original_amount)
             /\ NonNegative(payables[a].paid_amount)

\* ------------------------------------------------------------ SpecSales
\* products that can be put on a sales order
SalesProducts == {"p1", "p2"}

\* order.order_items.all()
order_items(items, s) ==
    {i \in OrderItemIds : items[i].exists /\ items[i].sales_order = s}

\* sum(item.total_price for item in ...)
RECURSIVE SumTotalPrice(_, _)
SumTotalPrice(items, ids) ==
    IF ids = {} THEN 0
    ELSE LET i == CHOOSE x \in ids : TRUE
         IN  items[i].total_price + SumTotalPrice(items, ids \ {i})

\* SalesOrder.calculate_totals on the order row, reading the items table.
\* Money is in cents; a percentage p of x is (x * p) / 100.
calculate_totals(order, items, s) ==
    LET subtotal == SumTotalPrice(items, order_items(items, s))
        discount_amount ==
            IF order.discount_percentage > 0
            THEN (subtotal * order.discount_percentage) \div 100
            ELSE order.discount_amount
        net_amount == subtotal - discount_amount
        tax_amount ==
            IF order.tax_percentage > 0
            THEN (net_amount * order.tax_percentage) \div 100
            ELSE order.tax_amount
    IN  [order EXCEPT !.subtotal = subtotal,
                      !.discount_amount = discount_amount,
                      !.tax_amount = tax_amount,
                      !.total_amount = net_amount + tax_amount
                                         + order.shipping_cost]

\* the row SalesOrderItem.save stores
SalesOrderItem_priced(item) ==
    LET discount_amount ==
            IF item.discount_percentage > 0
            THEN (item.quantity * item.unit_price * item.discount_percentage)
                    \div 100
            ELSE item.discount_amount
    IN  [item EXCEPT !.discount_amount = discount_amount,
                     !.total_price = item.quantity * item.unit_price
                                       - discount_amount]

\* SalesOrderItem.save: prices the item, writes it, then recalculates the
\* totals of the order the item now belongs to.
SalesOrderItem_save(i, item) ==
    LET items == [orderItems EXCEPT ![i] = SalesOrderItem_priced(item)]
    IN  /\ orderItems' = items
        /\ salesOrders' = [salesOrders EXCEPT ![item.sales_order] =
              calculate_totals(@, items, item.sales_order)]

\* SalesOrderItemSerializer validation: field validators of quantity and
\* unit_price, validate_quantity, validate_unit_price, and the
\* unique_together (sales_order, product) validator.
SalesOrderItemSerializer_is_valid(i, sales_order, product, quantity, unit_price) ==
    /\ MinValueValidator(1, quantity)
    /\ MinValueValidator(1, unit_price)
    /\ ~(quantity <= 0)
    /\ ~(unit_price <= 0)
    /\ \A j \in OrderItemIds \ {i} :
          ~(orderItems[j].exists /\ orderItems[j].sales_order = sales_order
            /\ orderItems[j].product = product)

\* POST sales-order-items/.  After serializer.save() the response is built
\* from serializer.data, whose item_total method field reads obj.item_total,
\* an attribute SalesOrderItem does not have: AttributeError, answered 500
\* with the rows already written.
SalesOrderItemViewSet_create(auth, i, sales_order, product, quantity, unit_price) ==
    /\ ~orderItems[i].exists
    /\ salesOrders[sales_order].exists
    /\ IF SalesOrderItemSerializer_is_valid(i, sales_order, product, quantity,
                                            unit_price)
       THEN /\ SalesOrderItem_save(i,
                  [exists |-> TRUE, sales_order |-> sales_order,
                   product |-> product, quantity |-> quantity,
                   unit_price |-> unit_price, discount_percentage |-> 0,
                   discount_amount |-> 0, total_price |-> 0])
            /\ RaiseUnhandled(auth)
       ELSE /\ UNCHANGED salesVars
            /\ RaiseApiException(auth, 400,
                  Obj([non_field_errors |-> Str("invalid")]))
    /\ UNCHANGED <<stockVars, poVars, reqVars, refVars, finVars, miscVars>>

\* PATCH sales-order-items/{id}/ {sales_order, quantity, unit_price}
SalesOrderItemViewSet_partial_update(auth, i, sales_order, quantity, unit_price) ==
    /\ orderItems[i].exists
    /\ salesOrders[sales_order].exists
    /\ IF SalesOrderItemSerializer_is_valid(i, sales_order,
                                            orderItems[i].product, quantity,
                                            unit_price)
       THEN /\ SalesOrderItem_save(i,
                  [orderItems[i] EXCEPT !.sales_order = sales_order,
                                        !.quantity = quantity,
                                        !.unit_price = unit_price])
            /\ RaiseUnhandled(auth)
       ELSE /\ UNCHANGED salesVars
            /\ RaiseApiException(auth, 400,
                  Obj([non_field_errors |-> Str("invalid")]))
    /\ UNCHANGED <<stockVars, poVars, reqVars, refVars, finVars, miscVars>>

\* DELETE sales-order-items/{id}/: ModelViewSet.destroy -> instance.delete();
\* SalesOrderItem has no delete hook and no signal recalculates the order.
SalesOrderItemViewSet_destroy(auth, i) ==
    /\ orderItems[i].exists
    /\ orderItems' = [orderItems EXCEPT ![i].exists = FALSE]
    /\ UNCHANGED salesOrders
    /\ Respond(auth, 204, [type |-> "none"])
    /\ UNCHANGED <<stockVars, poVars, reqVars, refVars, finVars, miscVars>>

ItemQuantities == 0..MaxItemQty
\* submitted unit prices: zero (rejected) and one cent
UnitPrices == {0, 1}

NextSales ==
    \/ \E auth \in BOOLEAN, i \in OrderItemIds, s \in SalesOrderIds,
          p \in SalesProducts, q \in ItemQuantities, v \in UnitPrices :
          ApiDispatch(auth, SalesOrderItemViewSet_create(auth, i, s, p, q, v))
    \/ \E auth \in BOOLEAN, i \in OrderItemIds, s \in SalesOrderIds,
          q \in ItemQuantities, v \in UnitPrices :
          ApiDispatch(auth,
                      SalesOrderItemViewSet_partial_update(auth, i, s, q, v))
    \/ \E auth \in BOOLEAN, i \in OrderItemIds :
          ApiDispatch(auth, SalesOrderItemViewSet_destroy(auth, i))

SpecSales == Init /\ [][NextSales]_vars

\* C10: the stored subtotal of every sales order equals the sum of
\* total_price over the items the order currently has.
SubtotalIsSumOfItems ==
    \A s \in SalesOrderIds :
        salesOrders[s].subtotal
           = SumTotalPrice(orderItems, order_items(orderItems, s))

\* ------------------------------------------------------------------------
\* SpecItems: sales order items saved through the model layer with a
\* discount percentage, as the demo-data command and the model tests do.

\* item discounts in percent; multiples of 100 keep the division exact
DiscountPercentages == {0, 100, 200}

\* SalesOrderItem.objects.create(sales_order=, product=, quantity=,
\* unit_price=, discount_percentage=): a new instance (discount_amount and
\* total_price at their default 0) on which save() runs; no validator runs.
SalesOrderItem_objects_create(i, sales_order, product, quantity, unit_price, discount_percentage) ==
    /\ ~orderItems[i].exists
    /\ salesOrders[sales_order].exists
    /\ \A j \in OrderItemIds \ {i} :
          ~(orderItems[j].exists /\ orderItems[j].sales_order = sales_order
            /\ orderItems[j].product = product)
    /\ SalesOrderItem_save(i,
          [exists |-> TRUE, sales_order |-> sales_order, product |-> product,
           quantity |-> quantity, unit_price |-> unit_price,
           discount_percentage |-> discount_percentage,
           discount_amount |-> 0, total_price |-> 0])
    /\ UNCHANGED <<stockVars, poVars, reqVars, httpVars, refVars, finVars,
                   miscVars>>

\* save() on an instance loaded from its row after quantity, unit_price and
\* discount_percentage were assigned; discount_amount is whatever the row
\* holds.
SalesOrderItem_save_instance(i, quantity, unit_price, discount_percentage) ==
    /\ orderItems[i].exists
    /\ SalesOrderItem_save(i,
          [orderItems[i] EXCEPT !.quantity = quantity,
                                !.unit_price = unit_price,
                                !.discount_percentage = discount_percentage])
    /\ UNCHANGED <<stockVars, poVars, reqVars, httpVars, refVars, finVars,
                   miscVars>>

\* quantities a stored item can have
SavedQuantities == 1..MaxItemQty

NextItems ==
    \/ \E i \in OrderItemIds, s \in SalesOrderIds, p \in SalesProducts,
          q \in SavedQuantities, d \in DiscountPercentages :
          SalesOrderItem_objects_create(i, s, p, q, 1, d)
    \/ \E i \in OrderItemIds, q \in SavedQuantities,
          d \in DiscountPercentages :
          SalesOrderItem_save_instance(i, q, 1, d)
    \/ \E auth \in BOOLEAN, i \in OrderItemIds, s \in SalesOrderIds,
          q \in ItemQuantities, v \in UnitPrices :
          ApiDispatch(auth,
                      SalesOrderItemViewSet_partial_update(auth, i, s, q, v))

SpecItems == Init /\ [][NextItems]_vars

\* C11: every saved sales order item has
\* total_price = quantity * unit_price
\*               - quantity * unit_price * discount_percentage / 100
\* for the discount_percentage it holds.
TotalPriceFollowsDiscount ==
    \A i \in OrderItemIds :
        orderItems[i].exists =>
            orderItems[i].total_price * 100
               = orderItems[i].quantity * orderItems[i].unit_price * 100
                 - orderItems[i].quantity * orderItems[i].unit_price
                     * orderItems[i].discount_percentage

\* ------------------------------------------------------------------------
\* SpecPayroll: payroll rows created through the model layer, the admin and
\* the API, and calculated by process_payroll.  Payroll money is in cents;
\* other_earnings stands for bonus_amount + commission_amount +
\* other_earnings and other_deductions for the six deductions a user enters.

Min(a, b) == IF a < b THEN a ELSE b

\* Payroll.calculate_gross_salary
calculate_gross_salary(p) ==
    [p EXCEPT !.gross_salary =
        p.base_salary + p.overtime_amount + p.other_earnings]

\* Payroll.calculate_deductions
calculate_deductions(p) ==
    [p EXCEPT !.total_deductions =
        p.inss_amount + p.irrf_amount + p.other_deductions]

\* Payroll.calculate_net_salary
calculate_net_salary(p) ==
    LET q == calculate_deductions(calculate_gross_salary(p))
    IN  [q EXCEPT !.net_salary = q.gross_salary - q.total_deductions]

\* Payroll.calculate_overtime() with its default arguments:
\* hourly_rate = base_salary / 220, overtime = hours * rate * 1.5
calculate_overtime(p) ==
    IF p.base_salary > 0 /\ p.overtime_hours > 0
    THEN [p EXCEPT !.overtime_amount =
             (p.overtime_hours * p.base_salary * 3) \div 440]
    ELSE p

\* Payroll.auto_calculate_taxes multiplies gross_salary by a float rate:
\* that is a TypeError when gross_salary is a Decimal, which it is on every
\* instance read from the database or already calculated; it is the int
\* default 0 only on the instance objects.create() returned.
auto_calculate_taxes_raises(p) == ~p.fresh

\* Payroll.auto_calculate_taxes on an instance it does not raise on
auto_calculate_taxes(p) ==
    LET gross == p.gross_salary
        inss_rate == IF gross <= 141200 THEN 75
                     ELSE IF gross <= 266668 THEN 90
                     ELSE IF gross <= 400003 THEN 120
                     ELSE 140
        inss == Min((gross * inss_rate) \div 1000, 90885)
        taxable_income == gross - inss
        irrf == IF taxable_income <= 211200 THEN 0
                ELSE IF taxable_income <= 282665
                     THEN (taxable_income * 75) \div 1000 - 15840
                ELSE IF taxable_income <= 375105
                     THEN (taxable_income * 150) \div 1000 - 37040
                ELSE IF taxable_income <= 466468
                     THEN (taxable_income * 225) \div 1000 - 65173
                ELSE (taxable_income * 275) \div 1000 - 88496
    IN  [p EXCEPT !.inss_amount = inss, !.irrf_amount = Max0(irrf)]

\* what Payroll.process_payroll saves when it completes
processed_payroll(p) ==
    LET p1 == IF p.overtime_hours > 0 THEN calculate_overtime(p) ELSE p
        p2 == auto_calculate_taxes(p1)
        p3 == calculate_net_salary(p2)
    IN  [p3 EXCEPT !.status = "calculated", !.fresh = FALSE]

\* the instance objects.create() returned: the keyword arguments and the
\* field defaults, whatever was written to the row since
created_instance(y) ==
    [payrolls[y] EXCEPT !.gross_salary = 0, !.total_deductions = 0,
                        !.net_salary = 0]

\* the database's unique constraints of Payroll: payroll_number, and
\* unique_together (employee, reference_month)
Payroll_unique(y, payroll_number, employee, reference_month) ==
    \A z \in PayrollIds \ {y} :
        payrolls[z].exists =>
            /\ payrolls[z].payroll_number # payroll_number
            /\ ~(payrolls[z].employee = employee
                 /\ payrolls[z].reference_month = reference_month)

NewPayroll(payroll_number, employee, reference_month, base_salary, overtime_hours, other_deductions, fresh) ==
    [NoPayroll EXCEPT !.exists = TRUE, !.payroll_number = payroll_number,
                      !.employee = employee,
                      !.reference_month = reference_month,
                      !.base_salary = base_salary,
                      !.overtime_hours = overtime_hours,
                      !.other_deductions = other_deductions,
                      !.fresh = fresh]

\* Payroll.objects.create(...): no validator runs; a row breaking a unique
\* constraint is refused by the database (IntegrityError).
Payroll_objects_create(y, payroll_number, employee, reference_month, base_salary, overtime_hours, other_deductions) ==
    /\ ~payrolls[y].exists
    /\ IF Payroll_unique(y, payroll_number, employee, reference_month)
       THEN /\ payrolls' = [payrolls EXCEPT ![y] =
                  NewPayroll(payroll_number, employee, reference_month,
                             base_salary, overtime_hours, other_deductions,
                             TRUE)]
            /\ lastOp' = Op("create", "payroll", y)
       ELSE /\ UNCHANGED payrolls
            /\ UNCHANGED lastOp
    /\ UNCHANGED <<stockVars, poVars, reqVars, salesVars, httpVars, refVars,
                   payables, receivables, payments, payReq, now>>

\* payroll.process_payroll() on the instance objects.create() returned
Payroll_process_payroll(y) ==
    /\ payrolls[y].exists
    /\ payrolls[y].fresh
    /\ payrolls' = [payrolls EXCEPT ![y] =
          processed_payroll(created_instance(y))]
    /\ lastOp' = Op("process_payroll", "payroll", y)
    /\ UNCHANGED <<stockVars, poVars, reqVars, salesVars, httpVars, refVars,
                   payables, receivables, payments, payReq, now>>

\* PayrollAdmin.process_payrolls on one selected payroll: the instance comes
\* from the queryset, auto_calculate_taxes raises TypeError before anything
\* is saved and the admin answers 500.
PayrollAdmin_process_payrolls(y) ==
    /\ payrolls[y].exists
    /\ auto_calculate_taxes_raises([payrolls[y] EXCEPT !.fresh = FALSE])
    /\ response' = [api |-> FALSE, auth |-> TRUE, status |-> 500, body |-> Html]
    /\ lastOp' = Op("process_payrolls: TypeError", "payroll", y)
    /\ UNCHANGED <<stockVars, poVars, reqVars, salesVars, refVars, finVars,
                   now>>

\* PayrollAdmin.calculate_payrolls on one selected payroll
PayrollAdmin_calculate_payrolls(y) ==
    /\ payrolls[y].exists
    /\ payrolls' = [payrolls EXCEPT ![y] = calculate_net_salary(@)]
    /\ response' = WebRedirect
    /\ lastOp' = Op("calculate_payrolls", "payroll", y)
    /\ UNCHANGED <<stockVars, poVars, reqVars, salesVars, refVars, payables,
                   receivables, payments, payReq, now>>

\* PayrollAdmin add form (the admin's default ModelForm): payroll_number is
\* required, the model validators run on the amounts, validate_unique checks
\* payroll_number and (employee, reference_month); reference_month is any
\* date.
PayrollAdmin_add(y, payroll_number, employee, reference_month, base_salary, other_deductions) ==
    /\ ~payrolls[y].exists
    /\ IF /\ payroll_number # ""
          /\ MinValueValidator(0, base_salary)
          /\ MinValueValidator(0, other_deductions)
          /\ Payroll_unique(y, payroll_number, employee, reference_month)
       THEN /\ payrolls' = [payrolls EXCEPT ![y] =
                  NewPayroll(payroll_number, employee, reference_month,
                             base_salary, 0, other_deductions, FALSE)]
            /\ response' = WebRedirect
            /\ lastOp' = Op("admin_add", "payroll", y)
       ELSE /\ UNCHANGED payrolls
            /\ response' = FormInvalid
            /\ UNCHANGED lastOp
    /\ UNCHANGED <<stockVars, poVars, reqVars, salesVars, refVars, payables,
                   receivables, payments, payReq, now>>

\* PayrollSerializer: validate_base_salary, validate_reference_month and the
\* unique-together validator DRF derives from Payroll.Meta.
PayrollSerializer_is_valid(y, employee, reference_month, base_salary, other_deductions) ==
    /\ MinValueValidator(0, base_salary)
    /\ MinValueValidator(0, other_deductions)
    /\ ~(base_salary <= 0)
    /\ ~(reference_month.day # 1)
    /\ \A z \in PayrollIds \ {y} :
          ~(payrolls[z].exists /\ payrolls[z].employee = employee
            /\ payrolls[z].reference_month = reference_month)

\* POST payroll/: payroll_number is no serializer field, so the row gets
\* the empty string, which the unique constraint allows once.
PayrollViewSet_create(auth, y, employee, reference_month, base_salary, other_deductions) ==
    /\ ~payrolls[y].exists
    /\ IF PayrollSerializer_is_valid(y, employee, reference_month,
                                     base_salary, other_deductions)
       THEN IF Payroll_unique(y, "", employee, reference_month)
            THEN /\ payrolls' = [payrolls EXCEPT ![y] =
                       NewPayroll("", employee, reference_month, base_salary,
                                  0, other_deductions, FALSE)]
                 /\ Respond(auth, 201, Data)
                 /\ lastOp' = Op("api_create", "payroll", y)
            ELSE /\ UNCHANGED payrolls
                 /\ RaiseUnhandled(auth)
                 /\ UNCHANGED lastOp
       ELSE /\ UNCHANGED payrolls
            /\ RaiseApiException(auth, 400,
                  Obj([reference_month |-> Str("invalid")]))
            /\ UNCHANGED lastOp
    /\ UNCHANGED <<stockVars, poVars, reqVars, salesVars, refVars, payables,
                   receivables, payments, payReq, now>>

PayrollNumbers == {"", "n1"}
PayrollEmployees == {"e1"}
\* reference months: two days of month 1 and the first day of month 2
ReferenceMonths ==
    {[month |-> 1, day |-> 1], [month |-> 1, day |-> 2],
     [month |-> 2, day |-> 1]}
Salaries == 0..MaxSalary
\* overtime hours: none, or 440 (overtime pay 3 x base_salary)
OvertimeHours == {0, 440}

NextPayroll ==
    \/ \E y \in PayrollIds, e \in PayrollEmployees,
          r \in ReferenceMonths, b \in Salaries, h \in OvertimeHours,
          d \in Salaries :
          Payroll_objects_create(y, "", e, r, b, h, d)
    \/ \E y \in PayrollIds : Payroll_process_payroll(y)
    \/ \E y \in PayrollIds : PayrollAdmin_process_payrolls(y)
    \/ \E y \in PayrollIds : PayrollAdmin_calculate_payrolls(y)
    \/ \E y \in PayrollIds, n \in PayrollNumbers, e \in PayrollEmployees,
          r \in ReferenceMonths, b \in {-1, 1} :
          PayrollAdmin_add(y, n, e, r, b, 0)
    \/ \E auth \in BOOLEAN, y \in PayrollIds, e \in PayrollEmployees,
          r \in ReferenceMonths, b \in {0, 1} :
          ApiDispatch(auth, PayrollViewSet_create(auth, y, e, r, b, 0))

SpecPayroll == Init /\ [][NextPayroll]_vars

\* C12: when process_payroll has completed on a payroll, its status is
\* 'calculated', its saved net_salary is gross_salary - total_deductions,
\* and the net salary is greater than 0 if base_salary is positive.
ProcessedPayrollNetPositive ==
    \A y \in PayrollIds :
        lastOp = Op("process_payroll", "payroll", y) =>
            /\ payrolls[y].status = "calculated"
            /\ payrolls[y].net_salary
                 = payrolls[y].gross_salary - payrolls[y].total_deductions
            /\ (payrolls[y].base_salary > 0 => payrolls[y].net_salary > 0)

\* C13: an employee has at most one payroll per calendar month.
OnePayrollPerEmployeeMonth ==
    \A y, z \in PayrollIds :
        (y # z /\ payrolls[y].exists /\ payrolls[z].exists
         /\ payrolls[y].employee = payrolls[z].employee)
            => payrolls[y].reference_month.month
                 # payrolls[z].reference_month.month

\* ------------------------------------------------------------------------
\* SpecAccounts: payables and receivables created and edited through the
\* API and the admin, and paid through make_payment.  Money is in cents.

AccountTables == {"payable", "receivable"}

\* the row of an account
Account(table, id) ==
    IF table = "payable" THEN payables[id] ELSE receivables[id]

AccountIds(table) == IF table = "payable" THEN PayableIds ELSE ReceivableIds

\* mutant: the balance without its floor
balance_unfloored(row) == row.original_amount - row.paid_amount

\* AccountsPayable.balance / AccountsReceivable.balance
balance(row) ==
    IF row.original_amount - row.paid_amount > 0
    THEN row.original_amount - row.paid_amount
    ELSE 0

\* AccountsPayable.total_amount / AccountsReceivable.total_amount
total_amount(row) ==
    row.original_amount + row.interest_amount + row.fine_amount
       - row.discount_amount

PaidAmounts == (-1)..MaxPaid

\* PATCH accounts-payable/{id}/ {paid_amount}
AccountsPayableViewSet_patch_paid_amount(auth, a, paid_amount) ==
    /\ payables[a].exists
    /\ IF AccountsPayableSerializer_is_valid(payables[a].original_amount,
                                             paid_amount)
       THEN /\ payables' = [payables EXCEPT ![a].paid_amount = paid_amount]
            /\ Respond(auth, 200, Data)
       ELSE /\ UNCHANGED payables
            /\ RaiseApiException(auth, 400,
                  Obj([paid_amount |-> Str("invalid")]))
    /\ UNCHANGED <<stockVars, poVars, reqVars, salesVars, refVars,
                   receivables, payVars, miscVars>>

\* AccountsReceivableSerializer: the field validators taken from the model
\* and validate_original_amount
AccountsReceivableSerializer_is_valid(original_amount, paid_amount) ==
    /\ MinValueValidator(1, original_amount)
    /\ MinValueValidator(0, paid_amount)
    /\ ~(original_amount <= 0)

\* POST accounts-receivable/
AccountsReceivableViewSet_create(auth, b, original_amount, paid_amount) ==
    /\ ~receivables[b].exists
    /\ IF AccountsReceivableSerializer_is_valid(original_amount, paid_amount)
       THEN /\ receivables' = [receivables EXCEPT ![b] =
                  [@ EXCEPT !.exists = TRUE,
                            !.original_amount = original_amount,
                            !.paid_amount = paid_amount,
                            !.status = "pending", !.interest_amount = 0,
                            !.fine_amount = 0, !.discount_amount = 0]]
            /\ Respond(auth, 201, Data)
       ELSE /\ UNCHANGED receivables
            /\ RaiseApiException(auth, 400,
                  Obj([original_amount |-> Str("invalid")]))
    /\ UNCHANGED <<stockVars, poVars, reqVars, salesVars, refVars, payables,
                   payVars, miscVars>>

\* AccountsReceivableAdmin change form (the admin's default ModelForm) with
\* paid_amount and interest_amount edited: the model validators run.
AccountsReceivableAdmin_change(b, paid_amount, interest_amount) ==
    /\ receivables[b].exists
    /\ IF /\ MinValueValidator(0, paid_amount)
          /\ MinValueValidator(0, interest_amount)
       THEN /\ receivables' = [receivables EXCEPT
                  ![b].paid_amount = paid_amount,
                  ![b].interest_amount = interest_amount]
            /\ response' = WebRedirect
       ELSE /\ UNCHANGED receivables
            /\ response' = FormInvalid
    /\ UNCHANGED <<stockVars, poVars, reqVars, salesVars, refVars, payables,
                   payVars, miscVars>>

\* make_payment, up to its two checks, on the instance request r loaded:
\* 'Payment amount must be positive', 'Payment amount exceeds total amount'
make_payment_check(r, table, id, amount) ==
    /\ payReq[r].pc # "create"
    /\ Account(table, id).exists
    /\ payReq' = [payReq EXCEPT ![r] =
          [pc |-> IF amount <= 0
                     \/ Account(table, id).paid_amount + amount
                          > total_amount(Account(table, id))
                  THEN "raised" ELSE "create",
           table |-> table, account |-> id, amount |-> amount,
           paid_amount |-> Account(table, id).paid_amount,
           status |-> Account(table, id).status,
           error |-> IF amount <= 0
                     THEN "Payment amount must be positive"
                     ELSE IF Account(table, id).paid_amount + amount
                               > total_amount(Account(table, id))
                     THEN "Payment amount exceeds total amount"
                     ELSE None]]
    /\ UNCHANGED <<stockVars, poVars, reqVars, salesVars, httpVars, refVars,
                   payables, receivables, payments, payrolls, miscVars>>

\* mutant: the payment record is created without created_by, so the call
\* goes on: paid_amount and status of the loaded instance, then save()
make_payment_create_accepting(r) ==
    /\ payReq[r].pc = "create"
    /\ LET t == payReq[r].table
           id == payReq[r].account
           paid == payReq[r].paid_amount + payReq[r].amount
           row == [Account(t, id) EXCEPT
                     !.paid_amount = paid,
                     !.status = IF paid >= total_amount(Account(t, id))
                                THEN "paid"
                                ELSE IF paid > 0 THEN "partially_paid"
                                ELSE @]
       IN  /\ payments' = payments (+)
                 SetToBag({[table |-> t, account |-> id,
                            amount |-> payReq[r].amount]})
           /\ IF t = "payable"
              THEN /\ payables' = [payables EXCEPT ![id] = row]
                   /\ UNCHANGED receivables
              ELSE /\ receivables' = [receivables EXCEPT ![id] = row]
                   /\ UNCHANGED payables
    /\ payReq' = [payReq EXCEPT ![r].pc = "done"]
    /\ UNCHANGED <<stockVars, poVars, reqVars, salesVars, httpVars, refVars,
                   payrolls, miscVars>>

\* make_payment, the creation of the payment record:
\* AccountsPayablePayment.objects.create(..., created_by=self.updated_by)
\* (and its receivable twin) passes created_by to a model that extends
\* BaseModel and has no such field: Model.__init__ raises TypeError, no
\* row is inserted and the statements after it never run.
make_payment_create(r) ==
    /\ payReq[r].pc = "create"
    /\ payReq' = [payReq EXCEPT ![r].pc = "raised", ![r].error = "TypeError"]
    /\ UNCHANGED <<stockVars, poVars, reqVars, salesVars, httpVars, refVars,
                   payables, receivables, payments, payrolls, miscVars>>

PaymentAmounts == 0..MaxPaid

NextAccounts ==
    \/ \E auth \in BOOLEAN, a \in PayableIds, w \in PaidAmounts :
          ApiDispatch(auth, AccountsPayableViewSet_create(auth, a, 1, w, 1, 1))
    \/ \E auth \in BOOLEAN, a \in PayableIds, w \in PaidAmounts :
          ApiDispatch(auth,
                      AccountsPayableViewSet_patch_paid_amount(auth, a, w))
    \/ \E auth \in BOOLEAN, b \in ReceivableIds, w \in PaidAmounts :
          ApiDispatch(auth, AccountsReceivableViewSet_create(auth, b, 1, w))
    \/ \E b \in ReceivableIds, w \in PaidAmounts, i \in {0, 1} :
          AccountsReceivableAdmin_change(b, w, i)
    \/ \E t \in AccountTables, v \in PaymentAmounts :
          \E id \in AccountIds(t) : make_payment_check("r1", t, id, v)
    \/ make_payment_create("r1")

SpecAccounts == Init /\ [][NextAccounts]_vars

AllAccounts ==
    {payables[a] : a \in {x \in PayableIds : payables[x].exists}}
       \cup {receivables[b] : b \in {x \in ReceivableIds : receivables[x].exists}}

\* C14: for every payable and receivable, balance is original_amount minus
\* paid_amount floored at 0: never negative, original_amount while nothing
\* is paid, and original_amount - paid_amount (so lower by exactly what was
\* paid) as long as that difference is not negative.
BalanceIsOriginalMinusPaid ==
    \A a \in PayableIds \cup ReceivableIds :
      \A row \in {IF a \in PayableIds THEN payables[a] ELSE receivables[a]} :
        row.exists =>
            /\ balance(row) >= 0
            /\ (row.paid_amount = 0 => balance(row) = row.original_amount)
            /\ (row.paid_amount <= row.original_amount
                  => balance(row) + row.paid_amount = row.original_amount)
            /\ (row.paid_amount > row.original_amount => balance(row) = 0)

\* an account paid beyond its original amount, and one partly paid
BalanceWitness ==
    /\ payables["a1"].exists
    /\ payables["a1"].paid_amount > payables["a1"].original_amount
    /\ receivables["b1"].exists
    /\ receivables["b1"].paid_amount = 1

\* C15: paid_amount never exceeds total_amount, and a make_payment call
\* that would exceed it is refused with 'Payment amount exceeds total
\* amount'.
PaidNeverExceedsTotal ==
    /\ \A row \in AllAccounts : row.paid_amount <= total_amount(row)
    /\ \A r \in Requests :
          (payReq[r].pc # "idle" /\ payReq[r].amount > 0
             /\ payReq[r].paid_amount + payReq[r].amount
                  > total_amount(Account(payReq[r].table, payReq[r].account)))
             => payReq[r].error = "Payment amount exceeds total amount"

\* ------------------------------------------------------------------------
\* SpecPayConc: two requests calling make_payment at the same time on
\* accounts entered with paid_amount 0.

\* payable.payments.all() / receivable.payments.all()
payments_of(table, id) ==
    filter(payments, LAMBDA p : p.table = table /\ p.account = id)

\* the sum of the amounts of payment records
RECURSIVE SumAmount(_)
SumAmount(rows) ==
    IF DOMAIN rows = {} THEN 0
    ELSE LET row == CHOOSE x \in DOMAIN rows : TRUE
         IN  row.amount * rows[row]
             + SumAmount([x \in DOMAIN rows \ {row} |-> rows[x]])

NextPayConc ==
    \/ \E a \in PayableIds, v \in {1, 2} :
          AccountsPayableCreateView_post(a, v, 1, 1)
    \/ \E auth \in BOOLEAN, b \in ReceivableIds, v \in {1, 2} :
          ApiDispatch(auth, AccountsReceivableViewSet_create(auth, b, v, 0))
    \/ \E r \in Requests, t \in AccountTables, v \in PaymentAmounts :
          \E id \in AccountIds(t) : make_payment_check(r, t, id, v)
    \/ \E r \in Requests : make_payment_create(r)

SpecPayConc == Init /\ [][NextPayConc]_vars

ProductionOrder_reserve_materials(o) ==
    /\ \/ /\ reserve_materials(o)
          /\ lastOp' = Op("reserve_materials", "production_order", o)
       \/ /\ ~can_start_production(o)
          /\ UNCHANGED stockVars
          /\ lastOp' = Op("ValueError: Insufficient materials to start production",
                          "production_order", o)
    /\ UNCHANGED <<poVars, reqVars, salesVars, httpVars, refVars, finVars, now>>

\* quantities received in one movement
ReceivedQuantities == {1, 2}

NextReserve ==
    \/ \E m \in Materials, q \in ReceivedQuantities : StockIn(m, q)
    \/ \E o \in ProductionOrderIds, s \in {"approved"} :
          ProductionOrder_patch_status(o, s)
    \/ \E o \in ProductionOrderIds : ProductionOrder_reserve_materials(o)
    \/ \E o \in ProductionOrderIds : Admin_reserve_materials(o)

SpecReserve == Init /\ [][NextReserve]_vars

\* the reservation movements of order o
reservations_of(o) ==
    filter(movements, LAMBDA mv : mv.production_order = o
                                    /\ mv.reason = "production"
                                    /\ mv.movement_type = "out")

ReserveStep ==
    /\ \A m \in Materials : Material_current_stock(m)' >= 0
    /\ \A o \in ProductionOrderIds :
          reservations_of(o)' # reservations_of(o) => can_start_production(o)
    /\ \A o \in ProductionOrderIds :
          (/\ lastOp' # lastOp
           /\ lastOp'.table = "production_order" /\ lastOp'.id = o
           /\ ~can_start_production(o))
          => /\ lastOp'.op
                  = "ValueError: Insufficient materials to start production"
             /\ movements' = movements

\* C17: starting from non-negative stock, calls of reserve_materials that
\* do not overlap never leave a material with negative stock; a call made
\* while a material is short raises 'Insufficient materials to start
\* production' and creates no movement.
SequentialReservationsKeepStock == [][ReserveStep]_vars

\* a reservation went through and a later call was refused for shortage
SequentialReservationWitness ==
    /\ reservations_of("o1") # EmptyBag
    /\ lastOp = Op("ValueError: Insufficient materials to start production",
                   "production_order", "o2")
    /\ \E m \in Materials : Material_current_stock(m) = 0

\* what the reservation movements of order o took of material m
reserved_quantity(o, m) ==
    -SumQuantity(filter(reservations_of(o), LAMBDA mv : mv.material = m))

\* C18: the materials of an order are deducted at most once: what its
\* reservation movements took of a material never exceeds the quantity the
\* order needs of it.
ReservedAtMostOnce ==
    \A o \in ProductionOrderIds : \A i \in 1..Len(recipe_items) :
        reserved_quantity(o, recipe_items[i].material)
           <= materials_needed(o)[i].quantity_needed

\* ------------------------------------------------------------------------
\* SpecComplete: production orders brought to 'completed' through the API
\* action, the admin action and the status-update view.

CompletionStatuses == {"in_progress", "completed"}

NextComplete ==
    \/ \E o \in ProductionOrderIds, s \in CompletionStatuses :
          ProductionOrderStatusUpdateView_post(TRUE, o, s)
    \/ \E auth \in BOOLEAN, o \in ProductionOrderIds :
          ApiDispatch(auth, ProductionOrderViewSet_complete_production(auth, o))
    \/ \E o \in ProductionOrderIds : Admin_complete_production(o)

SpecComplete == Init /\ [][NextComplete]_vars

\* the incoming product movements of order o
production_output_of(o) ==
    filter(movements, LAMBDA mv : mv.production_order = o
                                    /\ mv.product # None
                                    /\ mv.movement_type = "in")

\* C19: every production order in status 'completed' has exactly one
\* incoming product stock movement, and its quantity is the order's
\* produced_quantity.
CompletedOrderHasOneProductMovement ==
    \A o \in ProductionOrderIds :
        productionOrders[o].status = "completed" =>
            /\ BagCardinality(production_output_of(o)) = 1
            /\ \A mv \in DOMAIN production_output_of(o) :
                  mv.quantity = productionOrders[o].produced_quantity

\* the answer of start_production to an order it does not start
StartRefused ==
    /\ response.api
    /\ response.auth
    /\ response.status = 400
    /\ response.body
         = Obj([error |-> Str("Production order must be in pending status to start")])

\* C20: POST start_production is not refused for an order in the status a
\* newly created order has ('planned'): there it starts the order.
StartableInDefaultStatus ==
    \A o \in ApiProductionOrders :
        ~(StartRefused /\ productionOrders[o].status = "planned")

\* ------------------------------------------------ confirming a sales order
\* the answer of confirm to an order it does not confirm
ConfirmRefused ==
    /\ response.api
    /\ response.auth
    /\ response.status = 400
    /\ response.body
         = Obj([error |-> Str("Sales order must be in pending status to confirm")])

\* C21: POST confirm is not refused for an order in the status a newly
\* created sales order has ('draft'): there it confirms the order.
ConfirmableInDefaultStatus ==
    \A s \in ApiSalesOrders :
        ~(ConfirmRefused /\ salesOrders[s].status = "draft")

\* ------------------------------------------------------------------------
\* SpecCancel: accounts entered and cancelled through the API, then paid
\* through make_payment.

\* AccountsPayable.STATUS_CHOICES
AP_STATUS_CHOICES ==
    {"pending", "partially_paid", "paid", "overdue", "cancelled"}

\* AccountsReceivable.STATUS_CHOICES
AR_STATUS_CHOICES ==
    {"pending", "partially_paid", "paid", "overdue", "written_off",
     "cancelled"}

\* PATCH accounts-payable/{id}/ {status}: the serializer's ChoiceField
AccountsPayableViewSet_patch_status(auth, a, status) ==
    /\ payables[a].exists
    /\ IF status \in AP_STATUS_CHOICES
       THEN /\ payables' = [payables EXCEPT ![a].status = status]
            /\ Respond(auth, 200, Data)
       ELSE /\ UNCHANGED payables
            /\ RaiseApiException(auth, 400,
                  Obj([status |-> Str("not a valid choice")]))
    /\ UNCHANGED <<stockVars, poVars, reqVars, salesVars, refVars,
                   receivables, payVars, miscVars>>

\* PATCH accounts-receivable/{id}/ {status}
AccountsReceivableViewSet_patch_status(auth, b, status) ==
    /\ receivables[b].exists
    /\ IF status \in AR_STATUS_CHOICES
       THEN /\ receivables' = [receivables EXCEPT ![b].status = status]
            /\ Respond(auth, 200, Data)
       ELSE /\ UNCHANGED receivables
            /\ RaiseApiException(auth, 400,
                  Obj([status |-> Str("not a valid choice")]))
    /\ UNCHANGED <<stockVars, poVars, reqVars, salesVars, refVars,
                   payables, payVars, miscVars>>

PatchedAccountStatuses == {"pending", "cancelled", "written_off"}

NextCancel ==
    \/ \E a \in PayableIds, v \in 1..MaxPaid :
          AccountsPayableCreateView_post(a, v, 1, 1)
    \/ \E auth \in BOOLEAN, b \in ReceivableIds, v \in 1..MaxPaid :
          ApiDispatch(auth, AccountsReceivableViewSet_create(auth, b, v, 0))
    \/ \E auth \in BOOLEAN, a \in PayableIds, st \in PatchedAccountStatuses :
          ApiDispatch(auth, AccountsPayableViewSet_patch_status(auth, a, st))
    \/ \E auth \in BOOLEAN, b \in ReceivableIds,
          st \in PatchedAccountStatuses :
          ApiDispatch(auth,
                      AccountsReceivableViewSet_patch_status(auth, b, st))
    \/ \E t \in AccountTables, v \in PaymentAmounts :
          \E id \in AccountIds(t) : make_payment_check("r1", t, id, v)
    \/ make_payment_create("r1")

SpecCancel == Init /\ [][NextCancel]_vars

\* a step of make_payment
PaymentStep == payReq' # payReq

\* what a step of make_payment does to a cancelled account: the row stays
\* as it is, and the call on it does not complete
CancelledStep ==
    PaymentStep =>
        \A t \in AccountTables : \A id \in AccountIds(t) :
            (Account(t, id).exists /\ Account(t, id).status = "cancelled")
            => /\ Account(t, id)' = Account(t, id)
               /\ \A r \in Requests :
                     (payReq'[r].table = t /\ payReq'[r].account = id)
                     => payReq'[r].pc # "done"

AcceptedCallEnded(r) ==
    /\ payReq[r].pc \in {"raised", "done"}
    /\ payReq[r].amount > 0
    /\ payReq[r].error \notin {"Payment amount must be positive",
                               "Payment amount exceeds total amount"}

ManualMovementsKeepStock ==
    (\A mv \in DOMAIN movements : IsManual(mv))
    => /\ \A m \in Materials : Material_current_stock(m) >= 0
       /\ \A p \in Products : Product_current_stock(p) >= 0

\* ------------------------------------------------------------------------
\* SpecEntry: the entry points that store a stock movement, each with
\* every combination of material and product.

\* a StockMovement as an entry point builds it
EnteredMovement(material, product, movement_type, quantity) ==
    [material |-> material, product |-> product,
     movement_type |-> movement_type, reason |-> "adjustment",
     quantity |-> quantity, production_order |-> None, req |-> None]

\* StockMovement(...).save() / StockMovement.objects.create(...): clean()
\* raises ValidationError before the INSERT
StockMovement_objects_create(material, product, movement_type, quantity) ==
    /\ IF StockMovement_clean_valid(
             EnteredMovement(material, product, movement_type, quantity))
       THEN /\ StockMovement_save(
                  EnteredMovement(material, product, movement_type, quantity))
            /\ lastOp' = Op("create", "stock_movement", None)
       ELSE /\ UNCHANGED stockVars
            /\ lastOp' = Op("ValidationError", "stock_movement", None)
    /\ UNCHANGED <<poVars, reqVars, salesVars, httpVars, refVars, finVars, now>>

\* StockMovementCreateView, the whole POST: the ModelForm's _post_clean runs
\* instance.full_clean(), so the ValidationError of StockMovement.clean
\* makes the form invalid and the page is shown again.
StockMovementCreateView_submit(material, product, movement_type, quantity) ==
    IF StockMovement_clean_valid(
          EnteredMovement(material, product, movement_type, quantity))
    THEN StockMovementCreateView_post(material, product, movement_type, quantity)
    ELSE /\ response' = FormInvalid
         /\ UNCHANGED <<stockVars, poVars, reqVars, salesVars, refVars,
                        finVars, miscVars>>

\* POST stock-movements/: StockMovementSerializer.Meta.fields names
\* 'reference_document', which StockMovement does not have (the column is
\* document_number), so building the serializer's fields raises
\* ImproperlyConfigured before validate() runs: 500, nothing stored.
StockMovementViewSet_create(auth, material, product, movement_type, quantity) ==
    /\ RaiseUnhandled(auth)
    /\ UNCHANGED <<stockVars, poVars, reqVars, salesVars, refVars, finVars,
                   miscVars>>

EnteredTypes == {"in", "out"}

NextEntry ==
    \/ \E m \in Materials \cup {None}, p \in Products \cup {None},
          t \in EnteredTypes :
          StockMovement_objects_create(m, p, t, 1)
    \/ \E m \in Materials \cup {None}, p \in Products \cup {None},
          t \in EnteredTypes :
          StockMovementCreateView_submit(m, p, t, 1)
    \/ \E auth \in BOOLEAN, m \in Materials \cup {None},
          p \in Products \cup {None}, t \in EnteredTypes :
          ApiDispatch(auth, StockMovementViewSet_create(auth, m, p, t, 1))

SpecEntry == Init /\ [][NextEntry]_vars

\* the movement refers to exactly one item
HasOneItem(mv) == (mv.material = None) # (mv.product = None)

\* the step ended in a refusal
EntryRefused ==
    \/ response' # response /\ response'.status \in {200, 500}
    \/ lastOp' # lastOp /\ lastOp'.op = "ValidationError"

EntryStep ==
    /\ \A mv \in DOMAIN movements' : HasOneItem(mv)
    /\ EntryRefused => movements' = movements

\* C25: every stored stock movement refers to exactly one item, a material
\* or a product, whichever entry point created it, and a refused entry
\* stores nothing.
EveryMovementHasOneItem == [][EntryStep]_vars

\* movements of a material and of a product are stored, and the form has
\* just refused an entry
OneItemWitness ==
    /\ \E mv \in DOMAIN movements : mv.material # None
    /\ \E mv \in DOMAIN movements : mv.product # None
    /\ response = FormInvalid
    /\ lastOp.op = "ValidationError"

\* ------------------------------------------------------------------------
\* SpecProcess: payrolls with salaries that reach the tax brackets, created
\* through the model layer and processed.

\* base salaries, in cents: R$ 1000.00 and R$ 3000.00
ProcessedSalaries == {100000, 300000}

NextProcess ==
    \/ \E y \in PayrollIds, r \in ReferenceMonths, b \in ProcessedSalaries,
          h \in OvertimeHours :
          Payroll_objects_create(y, "", "e1", r, b, h, 0)
    \/ \E y \in PayrollIds : Payroll_process_payroll(y)
    \/ \E y \in PayrollIds : PayrollAdmin_process_payrolls(y)
    \/ \E y \in PayrollIds : PayrollAdmin_calculate_payrolls(y)

SpecProcess == Init /\ [][NextProcess]_vars

\* C26: when process_payroll has completed, the stored inss_amount and
\* irrf_amount are the tax-bracket amounts of the stored gross_salary.
TaxesFollowStoredGross ==
    \A y \in PayrollIds :
        lastOp = Op("process_payroll", "payroll", y) =>
            /\ payrolls[y].inss_amount
                 = auto_calculate_taxes(payrolls[y]).inss_amount
            /\ payrolls[y].irrf_amount
                 = auto_calculate_taxes(payrolls[y]).irrf_amount

\* C27: process_payroll is repeatable: run again on an already processed
\* payroll (the admin action 'process payrolls' on the stored row) it
\* completes without error.
ProcessPayrollRepeatable ==
    \A y \in PayrollIds :
        ~(/\ lastOp = Op("process_payrolls: TypeError", "payroll", y)
          /\ payrolls[y].status = "calculated")

\* ------------------------------------------------------------------------
\* SpecOverdue: accounts entered and edited through the API while the days
\* pass, and the two 'overdue' endpoints.

\* AccountsPayable.is_overdue / AccountsReceivable.is_overdue
is_overdue(row) ==
    now > row.due_date /\ row.status \in {"pending", "partially_paid"}

\* the queryset of both overdue actions:
\* filter(due_date__lt=timezone.now().date(), status='pending')
overdue_queryset(table) ==
    {id \in AccountIds(table) :
        /\ Account(table, id).exists
        /\ Account(table, id).due_date < now
        /\ Account(table, id).status = "pending"}

\* the serialized rows of a list answer, with the day it was computed on
Rows(table, ids) ==
    [type |-> "list", table |-> table, ids |-> ids, today |-> now]

\* AccountsPayableViewSet.overdue
AccountsPayableViewSet_overdue(auth) ==
    /\ Respond(auth, 200, Rows("payable", overdue_queryset("payable")))
    /\ UNCHANGED <<stockVars, poVars, reqVars, salesVars, refVars, finVars,
                   miscVars>>

\* AccountsReceivableViewSet.overdue
AccountsReceivableViewSet_overdue(auth) ==
    /\ Respond(auth, 200, Rows("receivable", overdue_queryset("receivable")))
    /\ UNCHANGED <<stockVars, poVars, reqVars, salesVars, refVars, finVars,
                   miscVars>>

\* a day passes
Tick ==
    /\ now <= MaxDate
    /\ now' = now + 1
    /\ UNCHANGED <<stockVars, poVars, reqVars, salesVars, httpVars, refVars,
                   finVars, lastOp>>

OverdueStatuses == {"pending", "partially_paid", "paid"}

NextOverdue ==
    \/ \E auth \in BOOLEAN, a \in PayableIds, d \in Dates :
          ApiDispatch(auth, AccountsPayableViewSet_create(auth, a, 1, 0, d, d))
    \/ \E auth \in BOOLEAN, b \in ReceivableIds :
          ApiDispatch(auth, AccountsReceivableViewSet_create(auth, b, 1, 0))
    \/ \E auth \in BOOLEAN, a \in PayableIds, st \in OverdueStatuses :
          ApiDispatch(auth, AccountsPayableViewSet_patch_status(auth, a, st))
    \/ \E auth \in BOOLEAN, b \in ReceivableIds, st \in OverdueStatuses :
          ApiDispatch(auth,
                      AccountsReceivableViewSet_patch_status(auth, b, st))
    \/ \E auth \in BOOLEAN : ApiDispatch(auth, AccountsPayableViewSet_overdue(auth))
    \/ \E auth \in BOOLEAN :
          ApiDispatch(auth, AccountsReceivableViewSet_overdue(auth))
    \/ Tick

SpecOverdue == Init /\ [][NextOverdue]_vars

\* C28: the answer of an 'overdue' endpoint lists exactly the accounts
\* whose is_overdue is true on the day of the request: due before today
\* and status 'pending' or 'partially_paid'.
OverdueListsOverdueAccounts ==
    (/\ response.api
     /\ response.status = 200
     /\ response.body.type = "list"
     /\ response.body.today = now)
    => response.body.ids
         = {id \in AccountIds(response.body.table) :
               /\ Account(response.body.table, id).exists
               /\ is_overdue(Account(response.body.table, id))}

\* ------------------------------------------------------------------------
\* SpecCredit: orders that get items, are confirmed and moved on through
\* the API, for a customer whose credit limit is set.

\* Sum('total_amount') over a set of sales orders
RECURSIVE SumTotalAmount(_)
SumTotalAmount(ids) ==
    IF ids = {} THEN 0
    ELSE LET s == CHOOSE x \in ids : TRUE
         IN  salesOrders[s].total_amount + SumTotalAmount(ids \ {s})

\* Customer.current_debt
Customer_current_debt(k) ==
    SumTotalAmount({s \in SalesOrderIds :
        /\ salesOrders[s].exists
        /\ salesOrders[s].customer = k
        /\ salesOrders[s].status \in {"confirmed", "partially_paid"}})

\* Customer.available_credit
Customer_available_credit(k) ==
    IF customers[k].credit_limit # 0
    THEN Max0(customers[k].credit_limit - Customer_current_debt(k))
    ELSE 0

CreditLimits == {0, 1, 2}
CreditStatuses == {"confirmed", "in_production", "ready", "delivered"}

NextCredit ==
    \/ \E auth \in BOOLEAN, i \in OrderItemIds, s \in SalesOrderIds,
          p \in SalesProducts :
          ApiDispatch(auth, SalesOrderItemViewSet_create(auth, i, s, p, 1, 1))
    \/ \E k \in CustomerIds, c \in CreditLimits : CustomerCreditView_post(k, c)
    \/ \E auth \in BOOLEAN, s \in SalesOrderIds, st \in CreditStatuses :
          ApiDispatch(auth, SalesOrderViewSet_partial_update(auth, s, st))

SpecCredit == Init /\ [][NextCredit]_vars

\* a confirmed order moves on to production, ready or delivered
ConfirmedOrderMovesOn ==
    \E s \in SalesOrderIds :
        /\ salesOrders[s].status = "confirmed"
        /\ salesOrders'[s].status \in {"in_production", "ready", "delivered"}

DebtStep ==
    ConfirmedOrderMovesOn =>
        \A k \in CustomerIds :
            /\ Customer_current_debt(k)' >= Customer_current_debt(k)
            /\ Customer_available_credit(k)' <= Customer_available_credit(k)

\* C29: moving a confirmed, unpaid order on to 'in_production', 'ready' or
\* 'delivered' does not lower the customer's current_debt and does not
\* raise the customer's available_credit.
DebtCoversConfirmedOrders == [][DebtStep]_vars

====
